---------------------------- MODULE Spec2Model ----------------------------
(***************************************************************************)
(* Derived-state consistency of the geophysical survey database:           *)
(* the field tables polja_mag / polja_gpr, the per-date coverage table     *)
(* povrsine_po_datumu and the project totals of projekti, together with    *)
(* the row triggers and check constraints that maintain them.              *)
(*                                                                         *)
(* Representation.                                                         *)
(*   - A polygon is its ring: a sequence of <<x, y>> vertices, the first   *)
(*     repeated at the end, as PostGIS stores it.  Coordinates are whole   *)
(*     metres.                                                             *)
(*   - The result of ST_UnaryUnion / ST_Difference is a region: the set of *)
(*     unit cells <<i, j>> (the square [i,i+1] x [j,j+1]) it covers.  Every*)
(*     polygon a field table accepts from Catalogue is rectilinear with    *)
(*     integer vertices, so the region is exact.                           *)
(*   - An area is a fixed-point number counted in ten-thousandths          *)
(*     (1 m2 = 10000), one digit finer than the three decimals the code    *)
(*     rounds to; NULL is the value Null.                                  *)
(*   - A date is a number 1..MaxDate; the NULL date is NoDate.             *)
(***************************************************************************)
EXTENDS Integers, Sequences, FiniteSets, TLC

VARIABLES
    polja_mag,          \* table polja_mag:  polje_id -> row
    polja_gpr,          \* table polja_gpr:  polje_id -> row
    povrsine_po_datumu, \* table povrsine_po_datumu: <<projekat_id, datum>> -> row
    projekti,           \* table projekti: projekat_id -> totals
    outcome,            \* what the last statement did, and to which row
    tx,                 \* the open transactions of the concurrent sessions
    tacke,              \* table tacke: tacka_id -> row
    dsm_rasteri,        \* table dsm_rasteri, in the order a scan returns its rows
    grids,              \* the geoid grid files the server's PROJ can open
    nule,               \* table nule: nule_id -> nule_naziv
    profili_mag,        \* table profili_mag: profil_id -> row
    profili_gpr,        \* table profili_gpr: profil_id -> row
    chain,              \* the statements and trigger calls of the mutation under way
    georadari,          \* table georadari: gpr_id -> gpr_proizvodjac_id
    antene              \* table antene: antena_id -> antena_proizvodjac_id

vars == <<polja_mag, polja_gpr, povrsine_po_datumu, projekti, outcome, tx,
          tacke, dsm_rasteri, grids, nule, profili_mag, profili_gpr, chain,
          georadari, antene>>

\* The tables and the bookkeeping the field statements and their triggers
\* neither read nor write.
rest == <<tacke, dsm_rasteri, grids, nule, profili_mag, profili_gpr, chain,
          georadari, antene>>

---------------------------------------------------------------------------
(* Bounds of the model *)

MaxProj == 2
MaxDate == 3
MaxMagId == 2
MaxGprId == 2
MaxOps == 3
GridW == 2
GridH == 2

Projects == 1..MaxProj
Dates == 1..MaxDate
NoDate == 0
DatesOrNull == Dates \cup {NoDate}
MagIds == 1..MaxMagId
GprIds == 1..MaxGprId
Cells == (0..(GridW - 1)) \X (0..(GridH - 1))

Null == -1

Abs(n) == IF n < 0 THEN -n ELSE n

RECURSIVE SumOver(_, _)
SumOver(S, f) ==
    IF S = {} THEN 0
    ELSE LET x == CHOOSE x \in S : TRUE
         IN f[x] + SumOver(S \ {x}, f)

---------------------------------------------------------------------------
(* Geometry primitives of the spatial engine *)

\* ST_NPoints: number of ring coordinates (closing point included).
ST_NPoints(g) == Len(g)

\* ST_MakeValid: every ring of Catalogue is a valid simple polygon, which
\* ST_MakeValid returns as it is.
ST_MakeValid(g) == g

\* ST_PointN(ST_ExteriorRing(g), i)
ST_PointN(g, i) == g[i]

\* Twice the signed area of the ring (shoelace sum).
Shoelace(g) ==
    LET term(i) == g[i][1] * g[i + 1][2] - g[i + 1][1] * g[i][2]
        idx == 1..(Len(g) - 1)
    IN SumOver(idx, [i \in idx |-> term(i)])

\* ST_Area of a polygon, in ten-thousandths.
ST_Area(g) == (Abs(Shoelace(g)) * 10000) \div 2

\* The directions in which the minimum rotated rectangle can lie: one side
\* of it is collinear with a segment between two vertices of the polygon.
Directions(g) ==
    {d \in {<<g[j][1] - g[i][1], g[j][2] - g[i][2]>> : i, j \in 1..Len(g)} :
        d # <<0, 0>>}

Max(S) == CHOOSE m \in S : \A n \in S : n <= m
Min(S) == CHOOSE m \in S : \A n \in S : m <= n

\* The bounding rectangle with a side along d has area num / den.
EnvelopeAlong(g, d) ==
    LET along == {g[i][1] * d[1] + g[i][2] * d[2] : i \in 1..Len(g)}
        across == {g[i][2] * d[1] - g[i][1] * d[2] : i \in 1..Len(g)}
    IN [num |-> (Max(along) - Min(along)) * (Max(across) - Min(across)),
        den |-> d[1] * d[1] + d[2] * d[2]]

\* ST_Area(ST_OrientedEnvelope(g)) as the fraction num / den: the smallest
\* bounding rectangle over all directions.
OrientedEnvelopeArea(g) ==
    LET cands == {EnvelopeAlong(g, d) : d \in Directions(g)}
    IN CHOOSE c \in cands : \A c2 \in cands : c.num * c2.den <= c2.num * c.den

\* The cell <<i, j>> lies inside the ring: even-odd rule on the ray from
\* the cell centre towards +x, in doubled coordinates (centre odd, vertices
\* even, so the ray meets no vertex).
Inside(c, g) ==
    LET cx == 2 * c[1] + 1
        cy == 2 * c[2] + 1
        crosses(i) ==
            LET ax == 2 * g[i][1]
                ay == 2 * g[i][2]
                bx == 2 * g[i + 1][1]
                by == 2 * g[i + 1][2]
                dy == by - ay
            IN /\ (ay > cy) # (by > cy)
               /\ ((ax - cx) * dy + (cy - ay) * (bx - ax)) * dy > 0
    IN Cardinality({i \in 1..(Len(g) - 1) : crosses(i)}) % 2 = 1

\* The region a polygon covers.
Region(g) == {c \in Cells : Inside(c, g)}

\* ST_Area of a region (the result of a union or a difference), in
\* ten-thousandths.
RegionArea(r) == Cardinality(r) * 10000

\* ROUND(x::numeric, 3) of a non-negative value counted in ten-thousandths:
\* to the nearest thousandth, halves away from zero.
Round3(a) == ((a + 5) \div 10) * 10

---------------------------------------------------------------------------
(* The polygons a client submits *)

\* The unit square of the specification's examples.
UnitSquare == <<<<0, 0>>, <<0, 1>>, <<1, 1>>, <<1, 0>>, <<0, 0>>>>
\* The 2 x 1 rectangle that contains it.
WideRect == <<<<0, 0>>, <<0, 1>>, <<2, 1>>, <<2, 0>>, <<0, 0>>>>
\* A rectilinear hexagon that contains WideRect: every angle is right, but
\* it is no rectangle.
LShape == <<<<0, 0>>, <<0, 2>>, <<1, 2>>, <<1, 1>>, <<2, 1>>, <<2, 0>>, <<0, 0>>>>
\* The unit square with one corner moved.
Trapezoid == <<<<0, 0>>, <<0, 1>>, <<1, 1>>, <<2, 0>>, <<0, 0>>>>
\* WideRect with one more vertex in the middle of its upper side.
SplitEdgeRect == <<<<0, 0>>, <<0, 1>>, <<1, 1>>, <<2, 1>>, <<2, 0>>, <<0, 0>>>>

Catalogue == {UnitSquare, WideRect, LShape, Trapezoid, SplitEdgeRect}

---------------------------------------------------------------------------
(* Check constraints of the field tables *)

\* check_rectangular_polygon:
\*   ST_NPoints(ST_MakeValid(geom)) = 5 AND
\*   abs(1 - ST_Area(ST_MakeValid(geom)) / ST_Area(ST_OrientedEnvelope(..))) < 0.0001
\* With area a / 20000 (a the shoelace sum times 10000) and envelope
\* e.num / e.den the second conjunct is |2 e.num - |s| e.den| * 10000 < 2 e.num.
ck_rectangular_polygon(geom) ==
    /\ ST_NPoints(ST_MakeValid(geom)) = 5
    /\ LET e == OrientedEnvelopeArea(ST_MakeValid(geom))
           s == Abs(Shoelace(ST_MakeValid(geom)))
       IN Abs(2 * e.num - s * e.den) * 10000 < 2 * e.num

\* |ST_Angle(p1, p2, p3) - pi/2| < 0.0001 or |.. - 3 pi/2| < 0.0001, that is
\* |cos(angle)| < sin(0.0001): with u = p1 - p2 and v = p3 - p2,
\* (u.v)^2 * 10^8 < |u|^2 |v|^2.
IsRightAngle(p1, p2, p3) ==
    LET ux == p1[1] - p2[1]
        uy == p1[2] - p2[2]
        vx == p3[1] - p2[1]
        vy == p3[2] - p2[2]
        dot == ux * vx + uy * vy
    IN dot * dot * 100000000 < (ux * ux + uy * uy) * (vx * vx + vy * vy)

\* Variant: the loop runs over the inner vertices 2 .. n - 1 only.
check_right_angles_Inner(geom) ==
    LET g == ST_MakeValid(geom)
        n == ST_NPoints(g) - 1
    IN \A i \in 2..(n - 1) :
        IsRightAngle(ST_PointN(g, i - 1), ST_PointN(g, i), ST_PointN(g, i + 1))

\* check_right_angles(geom): the loop over i = 1..n with n = NPoints - 1,
\* p1 the predecessor (n for i = 1), p3 the successor (1 for i = n).
check_right_angles(geom) ==
    LET g == ST_MakeValid(geom)
        n == ST_NPoints(g) - 1
    IN \A i \in 1..n :
        LET p1 == IF i = 1 THEN ST_PointN(g, n) ELSE ST_PointN(g, i - 1)
            p2 == ST_PointN(g, i)
            p3 == IF i = n THEN ST_PointN(g, 1) ELSE ST_PointN(g, i + 1)
        IN IsRightAngle(p1, p2, p3)

\* ck_right_angles: CHECK (check_right_angles(geom))
ck_right_angles(geom) == check_right_angles(geom)

\* PoljaMag.__table_args__: the geometry checks of table polja_mag.
PoljaMagChecks(geom) == ck_rectangular_polygon(geom) /\ ck_right_angles(geom)

\* PoljaGpr.__table_args__: the geometry checks of table polja_gpr.
PoljaGprChecks(geom) == ck_right_angles(geom)

---------------------------------------------------------------------------
(* Rows and tables *)

\* The generated column pov_mag / pov_gpr of a field row:
\* round(ST_Area(ST_MakeValid(ST_UnaryUnion(geom)))::numeric, 3).
FieldArea(geom) == Round3(ST_Area(ST_MakeValid(geom)))

\* A row of polja_mag: the columns the derivations read, and pov_mag.
PoljaMag(p, d, g) ==
    [projekat_id |-> p, datum |-> d, geom |-> g, pov_mag |-> FieldArea(g)]

\* A row of polja_gpr: the columns the derivations read, and pov_gpr.
PoljaGpr(p, d, g) ==
    [projekat_id |-> p, datum |-> d, geom |-> g, pov_gpr |-> FieldArea(g)]

\* OLD of an INSERT and NEW of a DELETE: no row.
NoRow == [projekat_id |-> 0, datum |-> NoDate, geom |-> <<>>]

\* Projekat: a project as created, with no total yet.
Projekat == [total_pov_mag |-> Null, total_pov_gpr |-> Null]

\* A table after writing row r under key k, and after removing key k.
Put(tbl, k, r) == [i \in DOMAIN tbl \cup {k} |-> IF i = k THEN r ELSE tbl[i]]
Drop(tbl, k) == [i \in DOMAIN tbl \ {k} |-> tbl[i]]

EmptyTable == [i \in {} |-> NoRow]

---------------------------------------------------------------------------
(* calculate_non_overlapping_area(p_projekat_id, p_datum, p_table_name) *)

\* Variant: the previous union also takes the fields of the date itself
\* (datum <= $2 where the function has datum < $2).
calculate_non_overlapping_area_inclusive(p_projekat_id, p_datum, tbl) ==
    LET before == {i \in DOMAIN tbl :
                     /\ tbl[i].projekat_id = p_projekat_id
                     /\ tbl[i].datum # NoDate
                     /\ tbl[i].datum <= p_datum}
        onDate == {i \in DOMAIN tbl :
                     /\ tbl[i].projekat_id = p_projekat_id
                     /\ tbl[i].datum # NoDate
                     /\ tbl[i].datum = p_datum}
        v_previous_union == UNION {Region(ST_MakeValid(tbl[i].geom)) : i \in before}
    IN IF onDate = {} THEN 0
       ELSE Round3(RegionArea(
              UNION {Region(ST_MakeValid(tbl[i].geom)) \ v_previous_union :
                       i \in onDate}))

\* Variant: the area of the earlier fields is subtracted from the area of the
\* date's fields, where the function takes the area of the difference.
calculate_non_overlapping_area_subtract(p_projekat_id, p_datum, tbl) ==
    LET before == {i \in DOMAIN tbl :
                     /\ tbl[i].projekat_id = p_projekat_id
                     /\ tbl[i].datum # NoDate
                     /\ tbl[i].datum < p_datum}
        onDate == {i \in DOMAIN tbl :
                     /\ tbl[i].projekat_id = p_projekat_id
                     /\ tbl[i].datum # NoDate
                     /\ tbl[i].datum = p_datum}
    IN IF onDate = {} THEN 0
       ELSE Round3(RegionArea(UNION {Region(ST_MakeValid(tbl[i].geom)) : i \in onDate}))
            - Round3(RegionArea(UNION {Region(ST_MakeValid(tbl[i].geom)) : i \in before}))

\* A geometry variable of the function: NULL, or the region it covers.
NullGeometry == [null |-> TRUE, region |-> {}]

\* The first query, SELECT ST_UnaryUnion(ST_Collect(ST_MakeValid(geom)))
\* .. WHERE projekat_id = $1 AND datum < $2 INTO v_previous_union, run on
\* tbl, the content of the table p_table_name names as the query sees it.
\* The aggregate of no row is NULL; a row with a NULL datum satisfies
\* neither datum < $2 nor datum = $2.
previous_union(p_projekat_id, p_datum, tbl) ==
    LET before == {i \in DOMAIN tbl :
                     /\ tbl[i].projekat_id = p_projekat_id
                     /\ tbl[i].datum # NoDate
                     /\ tbl[i].datum < p_datum}
    IN IF before = {} THEN NullGeometry
       ELSE [null |-> FALSE,
             region |-> UNION {Region(ST_MakeValid(tbl[i].geom)) : i \in before}]

\* The second query, of the branch that v_previous_union selects, run on
\* tbl as that query sees it, and RETURN COALESCE(v_total_area, 0).
total_area(v_previous_union, p_projekat_id, p_datum, tbl) ==
    LET onDate == {i \in DOMAIN tbl :
                     /\ tbl[i].projekat_id = p_projekat_id
                     /\ tbl[i].datum # NoDate
                     /\ tbl[i].datum = p_datum}
    IN IF ~v_previous_union.null
       THEN IF onDate = {} THEN 0
            ELSE Round3(RegionArea(
                   UNION {Region(ST_MakeValid(tbl[i].geom))
                            \ v_previous_union.region : i \in onDate}))
       ELSE IF onDate = {} THEN 0
            ELSE Round3(RegionArea(
                   UNION {Region(ST_MakeValid(tbl[i].geom)) : i \in onDate}))

\* The function called where both its queries see the same content tbl of
\* the table: inside one statement of a session no other session commits
\* between.
calculate_non_overlapping_area(p_projekat_id, p_datum, tbl) ==
    total_area(previous_union(p_projekat_id, p_datum, tbl),
               p_projekat_id, p_datum, tbl)

---------------------------------------------------------------------------
(* Trigger function update_povrsine_po_datumu; old and new are the rows    *)
(* OLD and NEW of the trigger                                              *)
(* (AFTER INSERT OR UPDATE OR DELETE on polja_mag and on polja_gpr)        *)

\* The values both UPDATE statements and the INSERT of the function compute
\* for the entry of (projekat_id, datum).
CoverageRow(projekat_id, datum, mag, gpr) ==
    [pov_mag |-> calculate_non_overlapping_area(projekat_id, datum, mag),
     pov_gpr |-> calculate_non_overlapping_area(projekat_id, datum, gpr)]

\* Variant: every UPDATE of the entries takes ppd.datum > from.
RecomputeFrom_AlwaysStrict(ppd, v_projekat_id, from, strict, mag, gpr) ==
    [k \in DOMAIN ppd |->
        IF k[1] = v_projekat_id /\ k[2] > from
        THEN CoverageRow(k[1], k[2], mag, gpr)
        ELSE ppd[k]]

\* UPDATE povrsine_po_datumu ppd SET pov_mag = .., pov_gpr = ..
\* WHERE ppd.projekat_id = v_projekat_id AND ppd.datum >= from   (strict = FALSE)
\*                                    or AND ppd.datum >  from   (strict = TRUE)
RecomputeFrom(ppd, v_projekat_id, from, strict, mag, gpr) ==
    [k \in DOMAIN ppd |->
        IF /\ k[1] = v_projekat_id
           /\ IF strict THEN k[2] > from ELSE k[2] >= from
        THEN CoverageRow(k[1], k[2], mag, gpr)
        ELSE ppd[k]]

\* Variant: ON CONFLICT DO NOTHING, an existing entry keeps its values.
UpsertCoverage_DoNothing(ppd, v_projekat_id, v_datum, mag, gpr) ==
    IF <<v_projekat_id, v_datum>> \in DOMAIN ppd
    THEN ppd
    ELSE Put(ppd, <<v_projekat_id, v_datum>>,
             CoverageRow(v_projekat_id, v_datum, mag, gpr))

\* Variant: an UPDATE of the entry, which inserts none.
UpsertCoverage_NoInsert(ppd, v_projekat_id, v_datum, mag, gpr) ==
    IF <<v_projekat_id, v_datum>> \in DOMAIN ppd
    THEN Put(ppd, <<v_projekat_id, v_datum>>,
             CoverageRow(v_projekat_id, v_datum, mag, gpr))
    ELSE ppd

\* INSERT INTO povrsine_po_datumu .. ON CONFLICT (projekat_id, datum) DO UPDATE
UpsertCoverage(ppd, v_projekat_id, v_datum, mag, gpr) ==
    Put(ppd, <<v_projekat_id, v_datum>>,
        CoverageRow(v_projekat_id, v_datum, mag, gpr))

\* Variant: the cascade runs for UPDATE only.
Cascade_UpdateOnly(TG_OP, ppd, v_projekat_id, v_datum, v_old_datum, mag, gpr) ==
    IF TG_OP = "DELETE"
    THEN ppd
    ELSE IF v_old_datum # NoDate /\ v_old_datum # v_datum
    THEN RecomputeFrom(ppd, v_projekat_id, v_old_datum, FALSE, mag, gpr)
    ELSE RecomputeFrom(ppd, v_projekat_id, v_datum, TRUE, mag, gpr)

\* The cascade of an UPDATE or DELETE (the block under
\* IF TG_OP = 'UPDATE' OR TG_OP = 'DELETE').
Cascade(TG_OP, ppd, v_projekat_id, v_datum, v_old_datum, mag, gpr) ==
    IF TG_OP = "UPDATE" /\ v_old_datum # NoDate /\ v_old_datum # v_datum
    THEN RecomputeFrom(ppd, v_projekat_id, v_old_datum, FALSE, mag, gpr)
    ELSE RecomputeFrom(ppd, v_projekat_id, v_datum, TRUE, mag, gpr)

\* The whole function: the table povrsine_po_datumu it leaves, given the
\* operation, its OLD and NEW rows, and the field tables after the operation.
update_povrsine_po_datumu(TG_OP, old, new, mag, gpr, ppd) ==
    LET v_projekat_id == IF TG_OP = "DELETE" THEN old.projekat_id
                         ELSE new.projekat_id
        v_datum == IF TG_OP = "DELETE" THEN old.datum ELSE new.datum
        v_old_datum == IF TG_OP = "UPDATE" THEN old.datum ELSE NoDate
    IN IF TG_OP = "UPDATE" /\ v_old_datum # NoDate /\ v_datum = NoDate
       THEN RecomputeFrom(ppd, v_projekat_id, v_old_datum, FALSE, mag, gpr)
       ELSE IF v_datum = NoDate
       THEN ppd
       ELSE LET upserted == UpsertCoverage(ppd, v_projekat_id, v_datum, mag, gpr)
            IN IF TG_OP = "UPDATE" \/ TG_OP = "DELETE"
               THEN Cascade(TG_OP, upserted, v_projekat_id, v_datum,
                            v_old_datum, mag, gpr)
               ELSE upserted

---------------------------------------------------------------------------
(* Trigger functions update_project_mag_area / update_project_gpr_area     *)
(* (AFTER INSERT OR UPDATE OR DELETE on polja_mag / polja_gpr)             *)

\* Variant: the sum runs over the fields of every project.
TotalArea_AllProjects(tbl, p) ==
    Round3(SumOver(DOMAIN tbl,
                   [i \in DOMAIN tbl |-> ST_Area(ST_MakeValid(tbl[i].geom))]))

\* SELECT COALESCE(SUM(ST_Area(ST_MakeValid(geom))), 0) FROM tbl
\* WHERE projekat_id = p, as the NUMERIC(10, 3) column of projekti stores it.
TotalArea(tbl, p) ==
    LET rows == {i \in DOMAIN tbl : tbl[i].projekat_id = p}
    IN Round3(SumOver(rows, [i \in rows |-> ST_Area(ST_MakeValid(tbl[i].geom))]))

\* Variant: the project an UPDATE takes the field away from is left alone.
TotalTargets_NewOnly(TG_OP, old, new) ==
    IF TG_OP = "DELETE" THEN {old.projekat_id} ELSE {new.projekat_id}

\* The projects whose total the function recomputes: NEW's on INSERT and
\* UPDATE, OLD's on DELETE and on an UPDATE that changed projekat_id.
TotalTargets(TG_OP, old, new) ==
    (IF TG_OP = "INSERT" \/ TG_OP = "UPDATE" THEN {new.projekat_id} ELSE {})
    \cup
    (IF TG_OP = "DELETE" \/ (TG_OP = "UPDATE" /\ old.projekat_id # new.projekat_id)
     THEN {old.projekat_id} ELSE {})

update_project_mag_area(TG_OP, old, new, mag, prj) ==
    [p \in DOMAIN prj |->
        IF p \in TotalTargets(TG_OP, old, new)
        THEN [prj[p] EXCEPT !.total_pov_mag = TotalArea(mag, p)]
        ELSE prj[p]]

update_project_gpr_area(TG_OP, old, new, gpr, prj) ==
    [p \in DOMAIN prj |->
        IF p \in TotalTargets(TG_OP, old, new)
        THEN [prj[p] EXCEPT !.total_pov_gpr = TotalArea(gpr, p)]
        ELSE prj[p]]

---------------------------------------------------------------------------
(* Statements on the field tables.  Each is one autocommitted statement:   *)
(* the check constraints, the row change, then the AFTER ROW triggers in   *)
(* name order (trg_polja_*_update_povrsine, trg_update_project_*_area).    *)

\* outcome: the last statement (its kind, table, key and whether it was
\* rejected) and the number of statements run so far.
Did(op, table, id, result) ==
    [op |-> op, table |-> table, id |-> id, result |-> result,
     n |-> outcome.n + 1]

\* The key an INSERT gets: the lowest free one.
NextId(tbl, ids) == Min(ids \ DOMAIN tbl)

NoTx == [s \in {} |-> 0]

\* The AFTER ROW triggers of polja_mag, given the table after the change.
AfterMag(TG_OP, old, new, mag) ==
    /\ polja_mag' = mag
    /\ povrsine_po_datumu' =
         update_povrsine_po_datumu(TG_OP, old, new, mag, polja_gpr,
                                   povrsine_po_datumu)
    /\ projekti' = update_project_mag_area(TG_OP, old, new, mag, projekti)
    /\ UNCHANGED polja_gpr

\* The AFTER ROW triggers of polja_gpr, given the table after the change.
AfterGpr(TG_OP, old, new, gpr) ==
    /\ polja_gpr' = gpr
    /\ povrsine_po_datumu' =
         update_povrsine_po_datumu(TG_OP, old, new, polja_mag, gpr,
                                   povrsine_po_datumu)
    /\ projekti' = update_project_gpr_area(TG_OP, old, new, gpr, projekti)
    /\ UNCHANGED polja_mag

Rejected(op, table, id) ==
    /\ outcome' = Did(op, table, id, "rejected")
    /\ UNCHANGED <<polja_mag, polja_gpr, povrsine_po_datumu, projekti>>

\* INSERT INTO polja_mag (projekat_id, datum, geom) VALUES (p, d, g)
InsertMag(id, p, d, g) ==
    /\ outcome.n < MaxOps
    /\ DOMAIN polja_mag # MagIds
    /\ id = NextId(polja_mag, MagIds)
    /\ IF PoljaMagChecks(g)
       THEN /\ AfterMag("INSERT", NoRow, PoljaMag(p, d, g),
                        Put(polja_mag, id, PoljaMag(p, d, g)))
            /\ outcome' = Did("INSERT", "polja_mag", id, "ok")
       ELSE Rejected("INSERT", "polja_mag", id)
    /\ UNCHANGED <<tx, rest>>

\* UPDATE polja_mag SET projekat_id = p, datum = d, geom = g WHERE polje_id = id
UpdateMag(id, p, d, g) ==
    /\ outcome.n < MaxOps
    /\ id \in DOMAIN polja_mag
    /\ IF PoljaMagChecks(g)
       THEN /\ AfterMag("UPDATE", polja_mag[id], PoljaMag(p, d, g),
                        Put(polja_mag, id, PoljaMag(p, d, g)))
            /\ outcome' = Did("UPDATE", "polja_mag", id, "ok")
       ELSE Rejected("UPDATE", "polja_mag", id)
    /\ UNCHANGED <<tx, rest>>

\* DELETE FROM polja_mag WHERE polje_id = id
DeleteMag(id) ==
    /\ outcome.n < MaxOps
    /\ id \in DOMAIN polja_mag
    /\ AfterMag("DELETE", polja_mag[id], NoRow, Drop(polja_mag, id))
    /\ outcome' = Did("DELETE", "polja_mag", id, "ok")
    /\ UNCHANGED <<tx, rest>>

\* INSERT INTO polja_gpr (projekat_id, datum, geom) VALUES (p, d, g)
InsertGpr(id, p, d, g) ==
    /\ outcome.n < MaxOps
    /\ DOMAIN polja_gpr # GprIds
    /\ id = NextId(polja_gpr, GprIds)
    /\ IF PoljaGprChecks(g)
       THEN /\ AfterGpr("INSERT", NoRow, PoljaGpr(p, d, g),
                        Put(polja_gpr, id, PoljaGpr(p, d, g)))
            /\ outcome' = Did("INSERT", "polja_gpr", id, "ok")
       ELSE Rejected("INSERT", "polja_gpr", id)
    /\ UNCHANGED <<tx, rest>>

\* UPDATE polja_gpr SET projekat_id = p, datum = d, geom = g WHERE polje_id = id
UpdateGpr(id, p, d, g) ==
    /\ outcome.n < MaxOps
    /\ id \in DOMAIN polja_gpr
    /\ IF PoljaGprChecks(g)
       THEN /\ AfterGpr("UPDATE", polja_gpr[id], PoljaGpr(p, d, g),
                        Put(polja_gpr, id, PoljaGpr(p, d, g)))
            /\ outcome' = Did("UPDATE", "polja_gpr", id, "ok")
       ELSE Rejected("UPDATE", "polja_gpr", id)
    /\ UNCHANGED <<tx, rest>>

\* DELETE FROM polja_gpr WHERE polje_id = id
DeleteGpr(id) ==
    /\ outcome.n < MaxOps
    /\ id \in DOMAIN polja_gpr
    /\ AfterGpr("DELETE", polja_gpr[id], NoRow, Drop(polja_gpr, id))
    /\ outcome' = Did("DELETE", "polja_gpr", id, "ok")
    /\ UNCHANGED <<tx, rest>>

\* No point, no raster, no geoid grid, no corner name, no profile, and no
\* mutation under way.
RestInit ==
    /\ tacke = EmptyTable
    /\ dsm_rasteri = <<>>
    /\ grids = {}
    /\ nule = EmptyTable
    /\ profili_mag = EmptyTable
    /\ profili_gpr = EmptyTable
    /\ chain = <<>>
    /\ georadari = EmptyTable
    /\ antene = EmptyTable

\* The database after create_db_and_tables and the creation of the projects:
\* no field, no coverage entry, no total.
Init ==
    /\ polja_mag = EmptyTable
    /\ polja_gpr = EmptyTable
    /\ povrsine_po_datumu = EmptyTable
    /\ projekti = [p \in Projects |-> Projekat]
    /\ outcome = [op |-> "NONE", table |-> "", id |-> 0, result |-> "ok", n |-> 0]
    /\ tx = NoTx
    /\ RestInit

Next ==
    \/ \E id \in MagIds, p \in Projects, d \in DatesOrNull, g \in Catalogue :
         InsertMag(id, p, d, g)
    \/ \E id \in MagIds, p \in Projects, d \in DatesOrNull, g \in Catalogue :
         UpdateMag(id, p, d, g)
    \/ \E id \in MagIds : DeleteMag(id)
    \/ \E id \in GprIds, p \in Projects, d \in DatesOrNull, g \in Catalogue :
         InsertGpr(id, p, d, g)
    \/ \E id \in GprIds, p \in Projects, d \in DatesOrNull, g \in Catalogue :
         UpdateGpr(id, p, d, g)
    \/ \E id \in GprIds : DeleteGpr(id)

Spec == Init /\ [][Next]_vars

---------------------------------------------------------------------------
(* Concurrent sessions.  main.py creates the engine with no isolation      *)
(* level, so every session runs at the server's default, READ COMMITTED:   *)
(* each statement of a trigger function reads the rows committed when it   *)
(* starts together with the session's own writes; a write to a row another *)
(* open transaction has written waits for that transaction to end; what a  *)
(* session wrote becomes visible to the others at its commit.              *)
(* Session s inserts one row into polja_mag, under the key s.              *)

\* The fields the sessions insert: two that overlap, and one the checks
\* reject.
TxGeoms == {UnitSquare, WideRect, Trapezoid}
\* Their dates: an earlier and a later one.
TxDates == {1, 2}

MaxSessions == 3
Sessions == 1..MaxSessions

Idle == [pc |-> "idle", row |-> NoRow, v_previous_union |-> NullGeometry,
         v_area_mag |-> Null, v_area_gpr |-> Null, v_total |-> Null]

\* polja_mag as the statements of session s see it.
Visible(s) == Put(polja_mag, s, tx[s].row)

\* Session s holds the lock of the coverage entry / of the project row it
\* wrote until it commits.
HoldsEntry(s, k) ==
    /\ tx[s].pc \in {"upserted", "summed", "updated"}
    /\ k = <<tx[s].row.projekat_id, tx[s].row.datum>>
HoldsProject(s, p) == tx[s].pc = "updated" /\ tx[s].row.projekat_id = p

TxFrame ==
    UNCHANGED <<polja_mag, polja_gpr, povrsine_po_datumu, projekti, outcome, rest>>

\* BEGIN; INSERT INTO polja_mag (projekat_id, datum, geom) VALUES (p, d, g):
\* the row passes the checks and is written, not yet committed.
TxInsert(s, p, d, g) ==
    /\ tx[s].pc = "idle"
    /\ PoljaMagChecks(g)
    /\ tx' = [tx EXCEPT ![s] = [Idle EXCEPT !.pc = "inserted",
                                             !.row = PoljaMag(p, d, g)]]
    /\ TxFrame

\* The table p_table_name names as a query of session s sees it when it
\* starts: the committed rows and the session's own.
TxTable(s, p_table_name) ==
    IF p_table_name = "polja_mag" THEN Visible(s) ELSE polja_gpr

\* update_povrsine_po_datumu, the two assignments
\* v_area_mag := calculate_non_overlapping_area(.., 'polja_mag') and
\* v_area_gpr := calculate_non_overlapping_area(.., 'polja_gpr').  The
\* function is VOLATILE and each EXECUTE of it is a query of its own, which
\* sees what is committed when it starts: other sessions may commit between
\* the two queries of a call and between the two calls.
\* The first query of the call for p_table_name.
TxPreviousUnion(s, p_table_name) ==
    /\ tx[s].pc = IF p_table_name = "polja_mag" THEN "inserted" ELSE "area_mag"
    /\ tx' = [tx EXCEPT
                ![s].pc = IF p_table_name = "polja_mag" THEN "union_mag"
                          ELSE "union_gpr",
                ![s].v_previous_union =
                    previous_union(tx[s].row.projekat_id, tx[s].row.datum,
                                   TxTable(s, p_table_name))]
    /\ TxFrame

\* The second query of the call for p_table_name, and the assignment of
\* what the call returns.
TxTotalArea(s, p_table_name) ==
    LET v == total_area(tx[s].v_previous_union, tx[s].row.projekat_id,
                        tx[s].row.datum, TxTable(s, p_table_name))
    IN /\ tx[s].pc = IF p_table_name = "polja_mag" THEN "union_mag"
                     ELSE "union_gpr"
       /\ tx' = IF p_table_name = "polja_mag"
                THEN [tx EXCEPT ![s].pc = "area_mag", ![s].v_area_mag = v,
                                ![s].v_previous_union = NullGeometry]
                ELSE [tx EXCEPT ![s].pc = "computed", ![s].v_area_gpr = v,
                                ![s].v_previous_union = NullGeometry]
       /\ TxFrame

\* update_povrsine_po_datumu, INSERT .. ON CONFLICT DO UPDATE with the values
\* computed before: waits while another open transaction has written the entry.
TxUpsertCoverage(s) ==
    /\ tx[s].pc = "computed"
    /\ \A t \in Sessions \ {s} :
         ~HoldsEntry(t, <<tx[s].row.projekat_id, tx[s].row.datum>>)
    /\ tx' = [tx EXCEPT ![s].pc = "upserted"]
    /\ TxFrame

\* update_project_mag_area, UPDATE projekti SET total_pov_mag = (SELECT ..):
\* the sub-select is evaluated on the statement's snapshot.
TxSumTotal(s) ==
    /\ tx[s].pc = "upserted"
    /\ tx' = [tx EXCEPT
                ![s].pc = "summed",
                ![s].v_total = TotalArea(Visible(s), tx[s].row.projekat_id)]
    /\ TxFrame

\* The same UPDATE writes the project row: waits while another open
\* transaction has written it.
TxUpdateTotal(s) ==
    /\ tx[s].pc = "summed"
    /\ \A t \in Sessions \ {s} : ~HoldsProject(t, tx[s].row.projekat_id)
    /\ tx' = [tx EXCEPT ![s].pc = "updated"]
    /\ TxFrame

\* COMMIT: the row, the entry and the total the session wrote become the
\* committed ones.
TxCommit(s) ==
    /\ tx[s].pc = "updated"
    /\ tx' = [tx EXCEPT ![s].pc = "committed"]
    /\ polja_mag' = Visible(s)
    /\ povrsine_po_datumu' =
         Put(povrsine_po_datumu, <<tx[s].row.projekat_id, tx[s].row.datum>>,
             [pov_mag |-> tx[s].v_area_mag, pov_gpr |-> tx[s].v_area_gpr])
    /\ projekti' = [projekti EXCEPT
                      ![tx[s].row.projekat_id].total_pov_mag = tx[s].v_total]
    /\ UNCHANGED <<polja_gpr, outcome, rest>>

InitTx ==
    /\ polja_mag = EmptyTable
    /\ polja_gpr = EmptyTable
    /\ povrsine_po_datumu = EmptyTable
    /\ projekti = [p \in Projects |-> Projekat]
    /\ outcome = [op |-> "NONE", table |-> "", id |-> 0, result |-> "ok", n |-> 0]
    /\ tx = [s \in Sessions |-> Idle]
    /\ RestInit

NextTx ==
    \/ \E s \in Sessions, p \in Projects, d \in TxDates, g \in TxGeoms :
         TxInsert(s, p, d, g)
    \/ \E s \in Sessions, p_table_name \in {"polja_mag", "polja_gpr"} :
         TxPreviousUnion(s, p_table_name)
    \/ \E s \in Sessions, p_table_name \in {"polja_mag", "polja_gpr"} :
         TxTotalArea(s, p_table_name)
    \/ \E s \in Sessions : TxUpsertCoverage(s)
    \/ \E s \in Sessions : TxSumTotal(s)
    \/ \E s \in Sessions : TxUpdateTotal(s)
    \/ \E s \in Sessions : TxCommit(s)

SpecTx == InitTx /\ [][NextTx]_vars

---------------------------------------------------------------------------
(* Points: table tacke, its generated columns x and y, and the trigger     *)
(* trg_update_tacka_z (BEFORE INSERT OR UPDATE OF geom) with its function  *)
(* update_tacka_z.  A coordinate or a height is a fixed-point number in    *)
(* ten-thousandths; a point geometry is <<x, y>>, the column being         *)
(* two-dimensional; the NULL geometry is NoGeom.                           *)

MaxTackaId == 1
MaxRasters == 2

TackaIds == 1..MaxTackaId

NoGeom == <<>>

\* The ordinates a client submits: 0, 1.2344 and 1.2346 for x, 2.0005 for y.
PointXs == {0, 12344, 12346}
PointYs == {20005}

\* The heights a client supplies for z: none, or 77.7777.
SuppliedZ == {Null, 777777}

\* ST_X, ST_Y of a point; ST_Z of a two-dimensional point is NULL.
ST_X(g) == g[1]
ST_Y(g) == g[2]
ST_Z(g) == IF Len(g) >= 3 THEN g[3] ELSE Null

\* ROUND(v::numeric, 3), and the rounding of a NUMERIC(10, 3) column, of a
\* value of either sign: halves away from zero.
RoundNumeric3(v) == IF v < 0 THEN -Round3(-v) ELSE Round3(v)

\* The rasters of the store.  A raster intersects the locations whose x lies
\* in lo..hi (its footprint, stated in the coordinates of the points) and
\* ST_Value gives val there, NULL where the raster has no data.
RasterWest == [lo |-> 0, hi |-> 12344, val |-> 1000000]
RasterLow == [lo |-> 12344, hi |-> 12345, val |-> 100005]
RasterVoid == [lo |-> 0, hi |-> 0, val |-> Null]
Rasters == {RasterWest, RasterLow, RasterVoid}

\* ST_Intersects(rast, geom_4326)
ST_Intersects(rast, g) == rast.lo <= ST_X(g) /\ ST_X(g) <= rast.hi

\* The geoid grids of the two pipelines, and the value both hold at the
\* points of the model: an undulation of 44.1234.
PrimaryGrid == "egm08_25.gtx"
SecondaryGrid == "us_nga_egm08_25.tif"
GeoidGrids == {PrimaryGrid, SecondaryGrid}
GeoidUndulation == 441234

\* geoid_height := ST_Z(ST_Transform(geom_4979, '+proj=pipeline +step
\* +proj=vgridshift +grids=.. +multiplier=1')), geom_4979 being the point
\* whose Z is raster_elevation: the Z of the shifted point, which is the
\* Z given plus the grid value, not the grid value itself.
geoid_height(raster_elevation) == raster_elevation + GeoidUndulation
\* The approximate undulation, 43.0.
ApproximateUndulation == 430000

\* SELECT ST_Value(rast, geom_4326) FROM dsm_rasteri
\* WHERE ST_Intersects(rast, geom_4326) LIMIT 1: the value of the first
\* intersecting raster the scan returns, NULL when there is none.
RasterElevation(rasters, g) ==
    LET hits == {i \in 1..Len(rasters) : ST_Intersects(rasters[i], g)}
    IN IF hits = {} THEN Null ELSE rasters[Min(hits)].val

\* update_tacka_z on the row new = [geom, z], given the raster store and the
\* grids PROJ can open: the z it assigns, the grids whose transform it
\* attempted, in order, and whether it raised the warning.
\* Variant: a row that has a z takes it for the height to correct, by the
\* fixed offset.
update_tacka_z_FromOwnZ(new, rasters, available) ==
    LET raster_elevation ==
            IF new.z # Null THEN new.z
            ELSE IF new.geom = NoGeom THEN Null
            ELSE RasterElevation(rasters, ST_MakeValid(new.geom))
    IN IF raster_elevation # Null
       THEN [z |-> RoundNumeric3(raster_elevation - ApproximateUndulation),
             tried |-> <<PrimaryGrid>>, warned |-> FALSE]
       ELSE [z |-> 0, tried |-> <<>>, warned |-> FALSE]

\* Variant: the warning is raised whenever the primary transform failed.
update_tacka_z_WarnsEarly(new, rasters, available) ==
    LET raster_elevation ==
            IF new.geom = NoGeom THEN Null
            ELSE RasterElevation(rasters, ST_MakeValid(new.geom))
    IN IF raster_elevation # Null
       THEN IF PrimaryGrid \in available
            THEN [z |-> RoundNumeric3(raster_elevation - geoid_height(raster_elevation)),
                  tried |-> <<PrimaryGrid>>, warned |-> FALSE]
            ELSE IF SecondaryGrid \in available
            THEN [z |-> RoundNumeric3(raster_elevation - geoid_height(raster_elevation)),
                  tried |-> <<PrimaryGrid, SecondaryGrid>>, warned |-> TRUE]
            ELSE [z |-> RoundNumeric3(raster_elevation - ApproximateUndulation),
                  tried |-> <<PrimaryGrid, SecondaryGrid>>, warned |-> TRUE]
       ELSE [z |-> 0, tried |-> <<>>, warned |-> FALSE]

\* Variant: without a raster value NEW.z is left as the statement gave it.
update_tacka_z_KeepsZ(new, rasters, available) ==
    LET raster_elevation ==
            IF new.geom = NoGeom THEN Null
            ELSE RasterElevation(rasters, ST_MakeValid(new.geom))
    IN IF raster_elevation # Null
       THEN IF PrimaryGrid \in available
            THEN [z |-> RoundNumeric3(raster_elevation - geoid_height(raster_elevation)),
                  tried |-> <<PrimaryGrid>>, warned |-> FALSE]
            ELSE IF SecondaryGrid \in available
            THEN [z |-> RoundNumeric3(raster_elevation - geoid_height(raster_elevation)),
                  tried |-> <<PrimaryGrid, SecondaryGrid>>, warned |-> FALSE]
            ELSE [z |-> RoundNumeric3(raster_elevation - ApproximateUndulation),
                  tried |-> <<PrimaryGrid, SecondaryGrid>>, warned |-> TRUE]
       ELSE [z |-> new.z, tried |-> <<>>, warned |-> FALSE]

update_tacka_z(new, rasters, available) ==
    LET raster_elevation ==
            IF new.geom = NoGeom THEN Null
            ELSE RasterElevation(rasters, ST_MakeValid(new.geom))
    IN IF raster_elevation # Null
       THEN IF PrimaryGrid \in available
            THEN [z |-> RoundNumeric3(raster_elevation - geoid_height(raster_elevation)),
                  tried |-> <<PrimaryGrid>>, warned |-> FALSE]
            ELSE IF SecondaryGrid \in available
            THEN [z |-> RoundNumeric3(raster_elevation - geoid_height(raster_elevation)),
                  tried |-> <<PrimaryGrid, SecondaryGrid>>, warned |-> FALSE]
            ELSE [z |-> RoundNumeric3(raster_elevation - ApproximateUndulation),
                  tried |-> <<PrimaryGrid, SecondaryGrid>>, warned |-> TRUE]
       ELSE [z |-> 0, tried |-> <<>>, warned |-> FALSE]

\* GeometryCodec.toPoint of the specification: the three-dimensional point
\* of the triple (x, y, z).  The repository has no encoder; a client makes
\* the geometry it writes.
toPoint(x, y, z) == <<x, y, z>>

\* The column geom is Geometry(POINT, srid 6316, dimension 2): the value
\* assigned to it is NULL or a point of two ordinates.  A point with a Z
\* ordinate fails the column's type modifier ("Geometry has Z dimension but
\* column does not") when the statement assigns it, before any trigger.
geom_typmod(g) == g = NoGeom \/ Len(g) = 2

\* The triple read back from a geometry: the generated columns
\* x = ST_X(ST_MakeValid(geom)), y = ST_Y(ST_MakeValid(geom)) as NUMERIC(10, 3),
\* and the geometry's own z.
fromGeometry(g) ==
    IF g = NoGeom THEN <<Null, Null, Null>>
    ELSE <<Round3(ST_X(ST_MakeValid(g))), Round3(ST_Y(ST_MakeValid(g))), ST_Z(g)>>

\* Variant: x and y are cut to three decimals, not rounded.
Tacke_Truncated(naziv, geom, z) ==
    [tacka_naziv |-> naziv, geom |-> geom,
     x |-> IF geom = NoGeom THEN Null ELSE (ST_X(geom) \div 10) * 10,
     y |-> IF geom = NoGeom THEN Null ELSE (ST_Y(geom) \div 10) * 10,
     z |-> IF z = Null THEN Null ELSE RoundNumeric3(z)]

\* A row of tacke as stored: tacka_naziv and geom as written, x and y
\* generated, z as the NUMERIC(10, 3) column keeps it.
Tacke(naziv, geom, z) ==
    [tacka_naziv |-> naziv, geom |-> geom,
     x |-> fromGeometry(geom)[1], y |-> fromGeometry(geom)[2],
     z |-> IF z = Null THEN Null ELSE RoundNumeric3(z)]

\* What a statement on tacke reports: its kind and row, the columns it set
\* and the values it gave them, whether it repeats the statement before it,
\* the number of calls of update_tacka_z it made, the grids those tried and
\* whether a warning was raised.
DidTacka(op, id, set, naziv, geom, z, calls, r) ==
    LET t == IF "tacka_naziv" \in set THEN naziv ELSE ""
        g == IF "geom" \in set THEN geom ELSE NoGeom
        h == IF "z" \in set THEN z ELSE Null
    IN [op |-> op, table |-> "tacke", id |-> id, result |-> "ok",
        n |-> outcome.n + 1, set |-> set, naziv |-> t, geom |-> g, z |-> h,
        again |-> /\ op = "UPDATE"
                  /\ outcome.op \in {"INSERT", "UPDATE"}
                  /\ outcome.result = "ok"
                  /\ outcome.id = id
                  /\ outcome.set = set
                  /\ outcome.naziv = t
                  /\ outcome.geom = g
                  /\ outcome.z = h,
        calls |-> calls, tried |-> r.tried, warned |-> r.warned]

NoCall == [z |-> Null, tried |-> <<>>, warned |-> FALSE]

TackeFrame ==
    UNCHANGED <<polja_mag, polja_gpr, povrsine_po_datumu, projekti, tx,
                dsm_rasteri, grids, nule, profili_mag, profili_gpr, chain,
                georadari, antene>>

\* The statement assigns to geom a value the column does not take: it ends
\* with the error, no trigger having run and no row written.
RejectTacka(op, id, set, naziv, geom, z) ==
    /\ tacke' = tacke
    /\ outcome' = [DidTacka(op, id, set, naziv, geom, z, 0, NoCall)
                     EXCEPT !.result = "rejected", !.again = FALSE]

\* INSERT INTO tacke (tacka_naziv, geom, z) VALUES (naziv, geom, z): the
\* trigger fires and assigns NEW.z.
InsertTacka(id, naziv, geom, z) ==
    /\ outcome.n < MaxOps
    /\ DOMAIN tacke # TackaIds
    /\ id = NextId(tacke, TackaIds)
    /\ LET set == {"tacka_naziv", "geom", "z"}
           r == update_tacka_z([geom |-> geom, z |-> z], dsm_rasteri, grids)
       IN IF ~geom_typmod(geom)
          THEN RejectTacka("INSERT", id, set, naziv, geom, z)
          ELSE /\ tacke' = Put(tacke, id, Tacke(naziv, geom, r.z))
               /\ outcome' = DidTacka("INSERT", id, set, naziv, geom, z, 1, r)
    /\ TackeFrame

\* UPDATE tacke SET <the columns of set> WHERE tacka_id = id: the trigger
\* fires when geom is among the columns set; the columns not set keep
\* their values.
UpdateTacka(id, set, naziv, geom, z) ==
    /\ outcome.n < MaxOps
    /\ id \in DOMAIN tacke
    /\ LET new == [tacka_naziv |-> IF "tacka_naziv" \in set THEN naziv
                                   ELSE tacke[id].tacka_naziv,
                   geom |-> IF "geom" \in set THEN geom ELSE tacke[id].geom,
                   z |-> IF "z" \in set THEN z ELSE tacke[id].z]
           r == update_tacka_z(new, dsm_rasteri, grids)
       IN IF ~geom_typmod(new.geom)
          THEN RejectTacka("UPDATE", id, set, naziv, geom, z)
          ELSE IF "geom" \in set
          THEN /\ tacke' = Put(tacke, id, Tacke(new.tacka_naziv, new.geom, r.z))
               /\ outcome' = DidTacka("UPDATE", id, set, naziv, new.geom,
                                      new.z, 1, r)
          ELSE /\ tacke' = Put(tacke, id, Tacke(new.tacka_naziv, new.geom, new.z))
               /\ outcome' = DidTacka("UPDATE", id, set, naziv, new.geom,
                                      new.z, 0, NoCall)
    /\ TackeFrame

\* DELETE FROM tacke WHERE tacka_id = id
DeleteTacka(id) ==
    /\ outcome.n < MaxOps
    /\ id \in DOMAIN tacke
    /\ tacke' = Drop(tacke, id)
    /\ outcome' = DidTacka("DELETE", id, {}, "", NoGeom, Null, 0, NoCall)
    /\ TackeFrame

\* The raster stores: the rasters loaded, in the order a scan returns them.
RasterStores ==
    {<<>>} \cup {<<a>> : a \in Rasters}
    \cup {s \in {<<a, b>> : a, b \in Rasters} : s[1] # s[2]}

InitTacke ==
    /\ polja_mag = EmptyTable
    /\ polja_gpr = EmptyTable
    /\ povrsine_po_datumu = EmptyTable
    /\ projekti = [p \in Projects |-> Projekat]
    /\ tx = NoTx
    /\ tacke = EmptyTable
    /\ dsm_rasteri \in {s \in RasterStores : Len(s) <= MaxRasters}
    /\ grids \in SUBSET GeoidGrids
    /\ nule = EmptyTable
    /\ profili_mag = EmptyTable
    /\ profili_gpr = EmptyTable
    /\ chain = <<>>
    /\ georadari = EmptyTable
    /\ antene = EmptyTable
    /\ outcome = [op |-> "NONE", table |-> "", id |-> 0, result |-> "ok",
                  n |-> 0, set |-> {}, naziv |-> "", geom |-> NoGeom,
                  z |-> Null, again |-> FALSE, calls |-> 0, tried |-> <<>>, warned |-> FALSE]

\* The geometries a client submits with the height z: the NULL geometry, a
\* point of two ordinates, or the point toPoint makes of a triple (x, y, z).
ClientGeoms(z) ==
    {NoGeom} \cup {<<x, y>> : x \in PointXs, y \in PointYs}
    \cup (IF z = Null THEN {}
          ELSE {toPoint(x, y, z) : x \in PointXs, y \in PointYs})

\* The names a client gives a point.
TackaNazivi == {"T1", "T2"}

\* The columns an UPDATE of a point sets: any of geom, z and tacka_naziv.
TackaColumns == {"tacka_naziv", "geom", "z"}

NextTacke ==
    \/ \E id \in TackaIds, naziv \in TackaNazivi, z \in SuppliedZ :
         \E geom \in ClientGeoms(z) : InsertTacka(id, naziv, geom, z)
    \/ \E id \in TackaIds, set \in (SUBSET TackaColumns) \ {{}},
          naziv \in TackaNazivi, z \in SuppliedZ :
         \E geom \in ClientGeoms(z) : UpdateTacka(id, set, naziv, geom, z)
    \/ \E id \in TackaIds : DeleteTacka(id)

SpecTacke == InitTacke /\ [][NextTacke]_vars

---------------------------------------------------------------------------
(* The whole write of a field or of a mag profile: the BEFORE ROW triggers *)
(* in name order, the CHECK constraints and the unique index on the row    *)
(* they leave, the write of the row, and the AFTER ROW triggers.  A name   *)
(* is the sequence of its characters; an angle is counted in eighths of a  *)
(* turn, clockwise from north.                                             *)

MaxWrites == 2
MaxProfilId == 1

ProfilIds == 1..MaxProfilId

\* The unit square given counter-clockwise, starting at another corner.
UnitSquareCCW == <<<<1, 1>>, <<0, 1>>, <<0, 0>>, <<1, 0>>, <<1, 1>>>>

\* The polygons submitted for a field, and the corner indices (Nula).
FieldGeoms == {UnitSquare, UnitSquareCCW, WideRect, Trapezoid}
NuleIds == 1..4

\* The names submitted for a field: "Polje 7", "7a", "polje7".
PoljeNazivi ==
    {<<"P", "o", "l", "j", "e", " ", "7">>, <<"7", "a">>,
     <<"p", "o", "l", "j", "e", "7">>}

\* The names submitted for a profile: "Profil 12", "Profil".
ProfilNazivi ==
    {<<"P", "r", "o", "f", "i", "l", " ", "1", "2">>,
     <<"P", "r", "o", "f", "i", "l">>}

\* The arrays submitted for pogresni_redovi: NULL, '{}', '{1,2}', '{3,1,3}'.
NullArray == <<Null>>
PogresniRedovi == {NullArray, <<>>, <<1, 2>>, <<3, 1, 3>>}

\* The lines submitted for a profile: of two points and of three.
ProfilGeoms == {<<<<0, 0>>, <<0, 1>>>>, <<<<0, 0>>, <<0, 1>>, <<1, 1>>>>}

Digits == {"0", "1", "2", "3", "4", "5", "6", "7", "8", "9"}
LowerCase ==
    {"a", "b", "c", "d", "e", "f", "g", "h", "i", "j", "k", "l", "m",
     "n", "o", "p", "q", "r", "s", "t", "u", "v", "w", "x", "y", "z"}

\* s ~ '^<prefix>\d+$'
MatchesPrefixDigits(s, prefix) ==
    /\ Len(s) > Len(prefix)
    /\ SubSeq(s, 1, Len(prefix)) = prefix
    /\ \A i \in (Len(prefix) + 1)..Len(s) : s[i] \in Digits

\* ck_polje_naziv_format: polje_naziv ~ '^Polje \d+$|^\d+[a-z]+$'
ck_polje_naziv_format(s) ==
    \/ MatchesPrefixDigits(s, <<"P", "o", "l", "j", "e", " ">>)
    \/ \E k \in 1..(Len(s) - 1) :
         /\ \A i \in 1..k : s[i] \in Digits
         /\ \A i \in (k + 1)..Len(s) : s[i] \in LowerCase

\* ck_profil_naziv_format: profil_naziv ~ '^Profil \d+$'
ck_profil_naziv_format(s) ==
    MatchesPrefixDigits(s, <<"P", "r", "o", "f", "i", "l", " ">>)

\* ck_linestring_two_points: ST_NPoints(ST_MakeValid(geom)) = 2
ck_linestring_two_points(geom) == ST_NPoints(ST_MakeValid(geom)) = 2

\* array_length(a, 1): NULL for the empty array.
array_length(a) == IF Len(a) = 0 THEN Null ELSE Len(a)

\* Variant: an array passes when its first two elements differ.
check_pogresni_redovi_unique_FirstTwo(new) ==
    \/ new.pogresni_redovi = NullArray
    \/ Len(new.pogresni_redovi) < 2
    \/ new.pogresni_redovi[1] # new.pogresni_redovi[2]

\* check_pogresni_redovi_unique: TRUE when the function returns NEW, FALSE
\* when it raises.  It raises when the array is not NULL and array_length
\* is a number different from COUNT(DISTINCT val).
check_pogresni_redovi_unique(new) ==
    IF new.pogresni_redovi # NullArray
    THEN LET n == array_length(new.pogresni_redovi)
             distinct == Cardinality({new.pogresni_redovi[i] :
                                      i \in 1..Len(new.pogresni_redovi)})
         IN ~(n # Null /\ n # distinct)
    ELSE TRUE

\* ST_ExteriorRing(ST_Normalize(polygon)): the ring clockwise, starting at
\* its least vertex (by x, then y).
ST_Normalize(g) ==
    LET n == Len(g) - 1
        cw == IF Shoelace(g) > 0 THEN [i \in 1..n |-> g[n + 1 - i]]
              ELSE [i \in 1..n |-> g[i]]
        less(a, b) == a[1] < b[1] \/ (a[1] = b[1] /\ a[2] < b[2])
        k == CHOOSE i \in 1..n : \A j \in 1..n : ~less(cw[j], cw[i])
    IN [i \in 1..(n + 1) |-> cw[((k + i - 2) % n) + 1]]

\* ST_OrientedEnvelope(polygon): the smallest enclosing rectangle is the
\* polygon itself when it is a rectangle, and for the other polygons
\* submitted the one parallel to the axes.
ST_OrientedEnvelope(g) ==
    LET xs == {g[i][1] : i \in 1..Len(g)}
        ys == {g[i][2] : i \in 1..Len(g)}
        e == OrientedEnvelopeArea(g)
    IN IF Len(g) = 5 /\ 2 * e.num = Abs(Shoelace(g)) * e.den
       THEN g
       ELSE <<<<Min(xs), Min(ys)>>, <<Max(xs), Min(ys)>>, <<Max(xs), Max(ys)>>,
              <<Min(xs), Max(ys)>>, <<Min(xs), Min(ys)>>>>

\* ST_Azimuth(a, b), for b due north, north-east, ... of a; NULL when a = b.
ST_Azimuth(a, b) ==
    LET dx == b[1] - a[1]
        dy == b[2] - a[2]
    IN IF dx = 0 /\ dy = 0 THEN Null
       ELSE IF dx = 0 THEN (IF dy > 0 THEN 0 ELSE 4)
       ELSE IF dy = 0 THEN (IF dx > 0 THEN 2 ELSE 6)
       ELSE IF dx > 0 THEN (IF dy > 0 THEN 1 ELSE 3)
       ELSE (IF dy < 0 THEN 5 ELSE 7)

\* ROUND(ST_Distance(a, b))::INTEGER
RoundedDistance(a, b) ==
    LET dx == b[1] - a[1]
        dy == b[2] - a[2]
        d2 == dx * dx + dy * dy
    IN CHOOSE r \in 0..(Abs(dx) + Abs(dy)) :
         /\ r = 0 \/ (2 * r - 1) * (2 * r - 1) <= 4 * d2
         /\ 4 * d2 < (2 * r + 1) * (2 * r + 1)

\* Variant: the angle is taken towards the previous vertex.
calculate_mag_nula_angle_Previous(new) ==
    IF new.nule_id # Null /\ new.geom # NoGeom
    THEN LET ring == ST_Normalize(ST_MakeValid(new.geom))
         IN [new EXCEPT !.nula_angle =
                ST_Azimuth(ST_PointN(ring, new.nule_id),
                           ST_PointN(ring, IF new.nule_id > 1
                                           THEN new.nule_id - 1 ELSE 4))]
    ELSE new

\* calculate_mag_nula_angle
calculate_mag_nula_angle(new) ==
    IF new.nule_id # Null /\ new.geom # NoGeom
    THEN LET ring == ST_Normalize(ST_MakeValid(new.geom))
             current_point == ST_PointN(ring, new.nule_id)
             next_point == IF new.nule_id < 4
                           THEN ST_PointN(ring, new.nule_id + 1)
                           ELSE ST_PointN(ring, 1)
         IN [new EXCEPT !.nula_angle = ST_Azimuth(current_point, next_point)]
    ELSE new

\* calculate_gpr_nula_angle
calculate_gpr_nula_angle(new) ==
    IF new.nule_id # Null /\ new.geom # NoGeom
    THEN LET ring == ST_Normalize(ST_OrientedEnvelope(ST_MakeValid(new.geom)))
             current_point == ST_PointN(ring, new.nule_id)
             prev_point == IF new.nule_id > 1
                           THEN ST_PointN(ring, new.nule_id - 1)
                           ELSE ST_PointN(ring, 4)
         IN [new EXCEPT !.nula_angle = ST_Azimuth(current_point, prev_point)]
    ELSE new

\* Variant: the neighbours of the corner are taken without wrapping.
calculate_mag_profile_dimensions_NoWrap(new) ==
    IF new.nule_id # Null /\ new.geom # NoGeom
    THEN LET ring == ST_Normalize(ST_MakeValid(new.geom))
             current_point == ST_PointN(ring, new.nule_id)
             left_index == IF new.nule_id < 4 THEN new.nule_id + 1 ELSE 4
             right_index == IF new.nule_id > 1 THEN new.nule_id - 1 ELSE 1
         IN [new EXCEPT
               !.duzina_profila =
                   RoundedDistance(current_point, ST_PointN(ring, left_index)),
               !.sirina_profila =
                   RoundedDistance(current_point, ST_PointN(ring, right_index))]
    ELSE new

\* calculate_mag_profile_dimensions
calculate_mag_profile_dimensions(new) ==
    IF new.nule_id # Null /\ new.geom # NoGeom
    THEN LET ring == ST_Normalize(ST_MakeValid(new.geom))
             current_point == ST_PointN(ring, new.nule_id)
             left_index == IF new.nule_id < 4 THEN new.nule_id + 1 ELSE 1
             right_index == IF new.nule_id > 1 THEN new.nule_id - 1 ELSE 4
         IN [new EXCEPT
               !.duzina_profila =
                   RoundedDistance(current_point, ST_PointN(ring, left_index)),
               !.sirina_profila =
                   RoundedDistance(current_point, ST_PointN(ring, right_index))]
    ELSE new

\* calculate_nula_xy_coordinates
calculate_nula_xy_coordinates(new) ==
    IF new.nule_id # Null /\ new.geom # NoGeom
    THEN LET nula_point ==
                 ST_PointN(ST_Normalize(ST_OrientedEnvelope(ST_MakeValid(new.geom))),
                           new.nule_id)
         IN [new EXCEPT !.nula_x = nula_point[1], !.nula_y = nula_point[2]]
    ELSE new

\* NEW of a statement on a field table: the columns the statement gives (an
\* UPDATE sets them all) and the derived columns, NULL for an INSERT and
\* OLD's for an UPDATE, with the generated area.
FieldRow(p, d, g, naziv, c, redovi, old) ==
    [projekat_id |-> p, datum |-> d, geom |-> g, pov_mag |-> FieldArea(g),
     pov_gpr |-> FieldArea(g), polje_naziv |-> naziv, nule_id |-> c,
     pogresni_redovi |-> redovi,
     nula_x |-> IF old = NoRow THEN Null ELSE old.nula_x,
     nula_y |-> IF old = NoRow THEN Null ELSE old.nula_y,
     nula_angle |-> IF old = NoRow THEN Null ELSE old.nula_angle,
     duzina_profila |-> IF old = NoRow THEN Null ELSE old.duzina_profila,
     sirina_profila |-> IF old = NoRow THEN Null ELSE old.sirina_profila]

\* A statement of register_triggers.  A function statement drops the
\* function with CASCADE, and with it every trigger that executes it, and
\* creates it again; a trigger statement drops the trigger of that name on
\* the table and creates it.
FunctionDDL(function) ==
    [kind |-> "function", function |-> function, name |-> "", table |-> ""]
TriggerDDL(name, table, function) ==
    [kind |-> "trigger", function |-> function, name |-> name, table |-> table]

\* register_triggers: the statements that run after_create of each table.
trigger_config(table) ==
    IF table = "tacke"
    THEN <<FunctionDDL("update_tacka_z"),
           TriggerDDL("trg_update_tacka_z", "tacke", "update_tacka_z")>>
    ELSE IF table = "polja_mag"
    THEN <<FunctionDDL("check_pogresni_redovi_unique"),
           TriggerDDL("trg_check_pogresni_redovi_unique", "polja_mag",
                      "check_pogresni_redovi_unique"),
           FunctionDDL("update_project_mag_area"),
           TriggerDDL("trg_update_project_mag_area", "polja_mag",
                      "update_project_mag_area"),
           FunctionDDL("calculate_nula_xy_coordinates"),
           TriggerDDL("trigger_calculate_nula_xy", "polja_mag",
                      "calculate_nula_xy_coordinates"),
           FunctionDDL("calculate_mag_nula_angle"),
           TriggerDDL("trigger_calculate_mag_angle", "polja_mag",
                      "calculate_mag_nula_angle"),
           FunctionDDL("calculate_mag_profile_dimensions"),
           TriggerDDL("trigger_calculate_mag_profile_dimensions", "polja_mag",
                      "calculate_mag_profile_dimensions")>>
    ELSE IF table = "polja_gpr"
    THEN <<FunctionDDL("check_gpr_antena_proizvodjac"),
           TriggerDDL("trigger_check_gpr_antena_proizvodjac", "polja_gpr",
                      "check_gpr_antena_proizvodjac"),
           FunctionDDL("update_project_gpr_area"),
           TriggerDDL("trg_update_project_gpr_area", "polja_gpr",
                      "update_project_gpr_area"),
           FunctionDDL("calculate_nula_xy_coordinates"),
           TriggerDDL("trigger_calculate_nula_xy", "polja_gpr",
                      "calculate_nula_xy_coordinates"),
           FunctionDDL("calculate_gpr_nula_angle"),
           TriggerDDL("trigger_calculate_gpr_angle", "polja_gpr",
                      "calculate_gpr_nula_angle")>>
    ELSE IF table = "povrsine_po_datumu"
    THEN <<FunctionDDL("calculate_non_overlapping_area"),
           FunctionDDL("update_povrsine_po_datumu"),
           TriggerDDL("trg_polja_mag_update_povrsine", "polja_mag",
                      "update_povrsine_po_datumu"),
           TriggerDDL("trg_polja_gpr_update_povrsine", "polja_gpr",
                      "update_povrsine_po_datumu")>>
    ELSE <<>>

\* The order in which create_all creates the tables that carry these
\* statements: by foreign key dependency, and among tables that do not
\* depend on each other in the order in which the models define them
\* (geometry_models before non_geo_models, PoljaMag before PoljaGpr).
CreateOrder == <<"tacke", "polja_mag", "polja_gpr", "povrsine_po_datumu">>

\* The triggers of the database after one more statement.
Execute(catalog, ddl) ==
    IF ddl.kind = "function"
    THEN {t \in catalog : t.function # ddl.function}
    ELSE {t \in catalog : ~(t.name = ddl.name /\ t.table = ddl.table)}
         \cup {ddl}

RECURSIVE ExecuteAll(_, _)
ExecuteAll(catalog, ddls) ==
    IF ddls = <<>> THEN catalog
    ELSE ExecuteAll(Execute(catalog, Head(ddls)), Tail(ddls))

RECURSIVE CreateAll(_, _)
CreateAll(catalog, tables) ==
    IF tables = <<>> THEN catalog
    ELSE CreateAll(ExecuteAll(catalog, trigger_config(Head(tables))),
                   Tail(tables))

\* The trigger is in the database that create_db_and_tables leaves.
Installed(table, name) ==
    \E t \in CreateAll({}, CreateOrder) : t.table = table /\ t.name = name

\* The triggers trigger_calculate_mag_angle,
\* trigger_calculate_mag_profile_dimensions and trigger_calculate_nula_xy of
\* polja_mag, in that order, each if the database has it.
BeforeMag(new) ==
    LET angle == IF Installed("polja_mag", "trigger_calculate_mag_angle")
                 THEN calculate_mag_nula_angle(new) ELSE new
        dims == IF Installed("polja_mag",
                             "trigger_calculate_mag_profile_dimensions")
                THEN calculate_mag_profile_dimensions(angle) ELSE angle
    IN IF Installed("polja_mag", "trigger_calculate_nula_xy")
       THEN calculate_nula_xy_coordinates(dims) ELSE dims

\* The triggers trigger_calculate_gpr_angle and trigger_calculate_nula_xy of
\* polja_gpr, each if the database has it.
BeforeGpr(new) ==
    LET angle == IF Installed("polja_gpr", "trigger_calculate_gpr_angle")
                 THEN calculate_gpr_nula_angle(new) ELSE new
    IN IF Installed("polja_gpr", "trigger_calculate_nula_xy")
       THEN calculate_nula_xy_coordinates(angle) ELSE angle

\* The unique index on projekat_id::text || '_' || naziv admits the row.
UniqueConcat(tbl, id, p, naziv, column) ==
    \A i \in DOMAIN tbl \ {id} :
        ~(tbl[i].projekat_id = p /\ tbl[i][column] = naziv)

\* What a statement of this part reports: as Did, with the validation that
\* rejected it and the array it gave for pogresni_redovi.
DidWrite(op, table, id, by, redovi) ==
    [op |-> op, table |-> table, id |-> id,
     result |-> IF by = "" THEN "ok" ELSE "rejected",
     n |-> outcome.n + 1, by |-> by, redovi |-> redovi]

\* The manufacturers (table proizvodjaci).
Proizvodjaci == {1, 2}

\* Tables georadari and antene after the devices were registered: a radar
\* and an antenna of each manufacturer.
LoadedGeoradari == [k \in Proizvodjaci |-> k]
LoadedAntene == [k \in Proizvodjaci |-> k]

\* Table nule after the initial data load: the four corners, under the keys
\* 1 to 4.
LoadedNule ==
    [i \in NuleIds |->
        IF i = 1 THEN "sever" ELSE IF i = 2 THEN "jug"
        ELSE IF i = 3 THEN "istok" ELSE "zapad"]

\* nule_id, foreign_key = "nule.nule_id": the row's corner is a row of nule.
fk_nule_id(new) == new.nule_id \in DOMAIN nule

\* The validation that rejects NEW on polja_mag, "" when none does: the
\* BEFORE trigger, the check constraints in the order of their names in the
\* database (check_rectangular_polygon is the name of ck_rectangular_polygon),
\* the unique index, and at the end of the statement the foreign key.
MagRejection(id, new) ==
    IF ~check_pogresni_redovi_unique(new) THEN "check_pogresni_redovi_unique"
    ELSE IF ~ck_rectangular_polygon(new.geom) THEN "check_rectangular_polygon"
    ELSE IF ~ck_polje_naziv_format(new.polje_naziv) THEN "ck_polje_naziv_format"
    ELSE IF ~ck_right_angles(new.geom) THEN "ck_right_angles"
    ELSE IF ~UniqueConcat(polja_mag, id, new.projekat_id, new.polje_naziv,
                          "polje_naziv")
    THEN "uq_projekat_polje_concat_mag"
    ELSE IF ~fk_nule_id(new) THEN "polja_mag_nule_id_fkey"
    ELSE ""

\* The validation that rejects NEW on polja_gpr, "" when none does: the
\* check constraints in the order of their names, the unique index, and at
\* the end of the statement the foreign key.
GprRejection(id, new) ==
    IF ~ck_polje_naziv_format(new.polje_naziv) THEN "ck_polje_naziv_format"
    ELSE IF ~ck_right_angles(new.geom) THEN "ck_right_angles"
    ELSE IF ~UniqueConcat(polja_gpr, id, new.projekat_id, new.polje_naziv,
                          "polje_naziv")
    THEN "uq_projekat_polje_concat_gpr"
    ELSE IF ~fk_nule_id(new) THEN "polja_gpr_nule_id_fkey"
    ELSE ""

\* Variant: the row is written and its AFTER triggers run before the
\* validations report.
WriteMag_ValidatesLast(TG_OP, id, old, new) ==
    LET row == BeforeMag(new)
    IN /\ AfterMag(TG_OP, old, row, Put(polja_mag, id, row))
       /\ outcome' = DidWrite(TG_OP, "polja_mag", id, MagRejection(id, new),
                           new.pogresni_redovi)

\* INSERT or UPDATE of the row id of polja_mag with NEW = new.
WriteMag(TG_OP, id, old, new) ==
    LET by == MagRejection(id, new)
        row == BeforeMag(new)
    IN /\ outcome' = DidWrite(TG_OP, "polja_mag", id, by, new.pogresni_redovi)
       /\ IF by = ""
          THEN AfterMag(TG_OP, old, row, Put(polja_mag, id, row))
          ELSE UNCHANGED <<polja_mag, polja_gpr, povrsine_po_datumu, projekti>>

\* INSERT or UPDATE of the row id of polja_gpr with NEW = new.
WriteGpr(TG_OP, id, old, new) ==
    LET by == GprRejection(id, new)
        row == BeforeGpr(new)
    IN /\ outcome' = DidWrite(TG_OP, "polja_gpr", id, by, NullArray)
       /\ IF by = ""
          THEN AfterGpr(TG_OP, old, row, Put(polja_gpr, id, row))
          ELSE UNCHANGED <<polja_mag, polja_gpr, povrsine_po_datumu, projekti>>

\* INSERT INTO polja_mag (projekat_id, datum, geom, polje_naziv, nule_id,
\* pogresni_redovi) VALUES (p, d, g, naziv, c, redovi)
InsertPoljeMag(id, p, d, g, naziv, c, redovi) ==
    /\ outcome.n < MaxWrites
    /\ DOMAIN polja_mag # MagIds
    /\ id = NextId(polja_mag, MagIds)
    /\ WriteMag("INSERT", id, NoRow, FieldRow(p, d, g, naziv, c, redovi, NoRow))
    /\ UNCHANGED <<tx, rest>>

\* UPDATE polja_mag SET projekat_id = p, datum = d, geom = g, polje_naziv =
\* naziv, nule_id = c, pogresni_redovi = redovi WHERE polje_id = id
UpdatePoljeMag(id, p, d, g, naziv, c, redovi) ==
    /\ outcome.n < MaxWrites
    /\ id \in DOMAIN polja_mag
    /\ WriteMag("UPDATE", id, polja_mag[id],
                FieldRow(p, d, g, naziv, c, redovi, polja_mag[id]))
    /\ UNCHANGED <<tx, rest>>

\* INSERT INTO polja_gpr (projekat_id, datum, geom, polje_naziv, nule_id)
InsertPoljeGpr(id, p, d, g, naziv, c) ==
    /\ outcome.n < MaxWrites
    /\ DOMAIN polja_gpr # GprIds
    /\ id = NextId(polja_gpr, GprIds)
    /\ WriteGpr("INSERT", id, NoRow, FieldRow(p, d, g, naziv, c, NullArray, NoRow))
    /\ UNCHANGED <<tx, rest>>

\* UPDATE polja_gpr SET projekat_id = p, datum = d, geom = g, polje_naziv =
\* naziv, nule_id = c WHERE polje_id = id
UpdatePoljeGpr(id, p, d, g, naziv, c) ==
    /\ outcome.n < MaxWrites
    /\ id \in DOMAIN polja_gpr
    /\ WriteGpr("UPDATE", id, polja_gpr[id],
                FieldRow(p, d, g, naziv, c, NullArray, polja_gpr[id]))
    /\ UNCHANGED <<tx, rest>>

\* The validation that rejects NEW on profili_mag, "" when none does: the
\* check constraints in the order of their names, then the unique index.
ProfilMagRejection(id, new) ==
    IF ~ck_linestring_two_points(new.geom) THEN "ck_linestring_two_points"
    ELSE IF ~ck_profil_naziv_format(new.profil_naziv) THEN "ck_profil_naziv_format"
    ELSE IF ~UniqueConcat(profili_mag, id, new.projekat_id, new.profil_naziv,
                          "profil_naziv")
    THEN "uq_projekat_profil_concat_mag"
    ELSE ""

\* INSERT INTO profili_mag (projekat_id, profil_naziv, geom): the table has
\* no trigger.
InsertProfilMag(id, new) ==
    /\ outcome.n < MaxWrites
    /\ DOMAIN profili_mag # ProfilIds
    /\ id = NextId(profili_mag, ProfilIds)
    /\ LET by == ProfilMagRejection(id, new)
       IN /\ outcome' = DidWrite("INSERT", "profili_mag", id, by, NullArray)
          /\ profili_mag' = IF by = "" THEN Put(profili_mag, id, new)
                            ELSE profili_mag
    /\ UNCHANGED <<polja_mag, polja_gpr, povrsine_po_datumu, projekti, tx,
                   tacke, dsm_rasteri, grids, nule, profili_gpr, chain,
                   georadari, antene>>

\* The database after create_db_and_tables and the initial data load: the
\* projects, the corners and the devices, no field, no profile.
InitWrite ==
    /\ polja_mag = EmptyTable
    /\ polja_gpr = EmptyTable
    /\ povrsine_po_datumu = EmptyTable
    /\ projekti = [p \in Projects |-> Projekat]
    /\ tx = NoTx
    /\ tacke = EmptyTable
    /\ dsm_rasteri = <<>>
    /\ grids = {}
    /\ nule = LoadedNule
    /\ profili_mag = EmptyTable
    /\ profili_gpr = EmptyTable
    /\ chain = <<>>
    /\ georadari = LoadedGeoradari
    /\ antene = LoadedAntene
    /\ outcome = [op |-> "NONE", table |-> "", id |-> 0, result |-> "ok",
                  n |-> 0, by |-> "", redovi |-> NullArray]

\* The statements of this part bear the first date.
WriteDates == {Min(Dates)}

NextWrite ==
    \/ \E id \in MagIds, p \in Projects, d \in WriteDates, g \in FieldGeoms,
          naziv \in PoljeNazivi, c \in NuleIds, redovi \in PogresniRedovi :
         InsertPoljeMag(id, p, d, g, naziv, c, redovi)
    \/ \E id \in MagIds, p \in Projects, d \in WriteDates, g \in FieldGeoms,
          naziv \in PoljeNazivi, c \in NuleIds, redovi \in PogresniRedovi :
         UpdatePoljeMag(id, p, d, g, naziv, c, redovi)
    \/ \E id \in GprIds, p \in Projects, d \in WriteDates, g \in FieldGeoms,
          naziv \in PoljeNazivi, c \in NuleIds :
         InsertPoljeGpr(id, p, d, g, naziv, c)
    \/ \E id \in GprIds, p \in Projects, d \in WriteDates, g \in FieldGeoms,
          naziv \in PoljeNazivi, c \in NuleIds :
         UpdatePoljeGpr(id, p, d, g, naziv, c)
    \/ \E id \in ProfilIds, p \in Projects, naziv \in ProfilNazivi,
          g \in ProfilGeoms :
         InsertProfilMag(id, [projekat_id |-> p, profil_naziv |-> naziv,
                              geom |-> g])

SpecWrite == InitWrite /\ [][NextWrite]_vars

---------------------------------------------------------------------------
(* The profiles: tables profili_mag and profili_gpr with the constraints   *)
(* of their __table_args__.  Neither table carries a trigger.              *)

\* ProfilGpr.__table_args__: the validation that rejects NEW on profili_gpr,
\* "" when none does.  file_name is left NULL, which passes
\* ck_file_name_format_gpr.
ProfilGprRejection(id, new) ==
    IF ~ck_profil_naziv_format(new.profil_naziv) THEN "ck_profil_naziv_format"
    ELSE IF ~UniqueConcat(profili_gpr, id, new.projekat_id, new.profil_naziv,
                          "profil_naziv")
    THEN "uq_projekat_profil_concat_gpr"
    ELSE ""

ProfilFrame ==
    UNCHANGED <<polja_mag, polja_gpr, povrsine_po_datumu, projekti, tx, tacke,
                dsm_rasteri, grids, nule, chain,
                georadari, antene>>

\* INSERT INTO profili_gpr (projekat_id, profil_naziv, geom)
InsertProfilGpr(id, new) ==
    /\ outcome.n < MaxWrites
    /\ DOMAIN profili_gpr # ProfilIds
    /\ id = NextId(profili_gpr, ProfilIds)
    /\ LET by == ProfilGprRejection(id, new)
       IN /\ outcome' = DidWrite("INSERT", "profili_gpr", id, by, NullArray)
          /\ profili_gpr' = IF by = "" THEN Put(profili_gpr, id, new)
                            ELSE profili_gpr
    /\ UNCHANGED profili_mag
    /\ ProfilFrame

\* UPDATE profili_mag SET projekat_id, profil_naziv, geom WHERE profil_id = id
UpdateProfilMag(id, new) ==
    /\ outcome.n < MaxWrites
    /\ id \in DOMAIN profili_mag
    /\ LET by == ProfilMagRejection(id, new)
       IN /\ outcome' = DidWrite("UPDATE", "profili_mag", id, by, NullArray)
          /\ profili_mag' = IF by = "" THEN Put(profili_mag, id, new)
                            ELSE profili_mag
    /\ UNCHANGED profili_gpr
    /\ ProfilFrame

\* UPDATE profili_gpr SET projekat_id, profil_naziv, geom WHERE profil_id = id
UpdateProfilGpr(id, new) ==
    /\ outcome.n < MaxWrites
    /\ id \in DOMAIN profili_gpr
    /\ LET by == ProfilGprRejection(id, new)
       IN /\ outcome' = DidWrite("UPDATE", "profili_gpr", id, by, NullArray)
          /\ profili_gpr' = IF by = "" THEN Put(profili_gpr, id, new)
                            ELSE profili_gpr
    /\ UNCHANGED profili_mag
    /\ ProfilFrame

\* The rows a statement on a profile table gives.
ProfilRows ==
    [projekat_id : Projects,
     profil_naziv : ProfilNazivi \cup {<<"P", "r", "o", "f", "i", "l", " ", "7">>},
     geom : ProfilGeoms]

NextProfil ==
    \/ \E id \in ProfilIds, new \in ProfilRows : InsertProfilMag(id, new)
    \/ \E id \in ProfilIds, new \in ProfilRows : InsertProfilGpr(id, new)
    \/ \E id \in ProfilIds, new \in ProfilRows : UpdateProfilMag(id, new)
    \/ \E id \in ProfilIds, new \in ProfilRows : UpdateProfilGpr(id, new)

SpecProfil == InitWrite /\ [][NextProfil]_vars

---------------------------------------------------------------------------
(* The checks and derivations of a field as functions of the geometry and  *)
(* the corner index: ck_right_angles as the table evaluates it for a row,  *)
(* and the BEFORE row triggers as they leave NEW.                          *)

\* A rectangle that lies at an eighth of a turn: sides of length sqrt(2) and
\* sqrt(8).
TiltedRect == <<<<0, 2>>, <<1, 3>>, <<3, 1>>, <<2, 0>>, <<0, 2>>>>
\* Parallelograms whose angles miss the quarter turn by 1 / 20000 and by
\* 1 / 5000 of a radian.
SkewedWithin == <<<<0, 0>>, <<1, 20000>>, <<2, 20000>>, <<1, 0>>, <<0, 0>>>>
SkewedBeyond == <<<<0, 0>>, <<1, 5000>>, <<2, 5000>>, <<1, 0>>, <<0, 0>>>>

\* The same ring written from its vertex k + 1, and in the other direction.
StartingAt(g, k) ==
    LET n == Len(g) - 1
    IN [i \in 1..(n + 1) |-> g[((k + i - 1) % n) + 1]]
Reversed(g) == [i \in 1..Len(g) |-> g[Len(g) + 1 - i]]

\* Every way of writing the rings of a set.
Writings(S) ==
    LET turned == {StartingAt(g, k) : g \in S, k \in 0..5}
    IN turned \cup {Reversed(g) : g \in turned}

CheckedGeoms ==
    Writings({UnitSquare, WideRect, LShape, Trapezoid, SplitEdgeRect,
              TiltedRect, SkewedWithin, SkewedBeyond})
DerivedGeoms == Writings({UnitSquare, WideRect, TiltedRect})

DeriveFrame ==
    UNCHANGED <<polja_mag, polja_gpr, povrsine_po_datumu, projekti, tx, rest>>

\* The CHECK constraint ck_right_angles evaluated for a row with geometry g.
CheckRightAngles(g) ==
    /\ outcome' = [op |-> "ck_right_angles", geom |-> g,
                   result |-> IF ck_right_angles(g) THEN "ok" ELSE "rejected"]
    /\ DeriveFrame

\* NEW as the BEFORE INSERT triggers of polja_mag leave it.
BeforeInsertPoljeMag(g, c, naziv) ==
    /\ outcome' = [op |-> "BeforeMag", geom |-> g, nule_id |-> c,
                   new |-> BeforeMag(FieldRow(1, Min(Dates), g, naziv, c,
                                              NullArray, NoRow))]
    /\ DeriveFrame

\* NEW as the BEFORE INSERT triggers of polja_gpr leave it.
BeforeInsertPoljeGpr(g, c, naziv) ==
    /\ outcome' = [op |-> "BeforeGpr", geom |-> g, nule_id |-> c,
                   new |-> BeforeGpr(FieldRow(1, Min(Dates), g, naziv, c,
                                              NullArray, NoRow))]
    /\ DeriveFrame

NextDerive ==
    \/ \E g \in CheckedGeoms : CheckRightAngles(g)
    \/ \E g \in DerivedGeoms, c \in NuleIds, naziv \in PoljeNazivi :
         BeforeInsertPoljeMag(g, c, naziv)
    \/ \E g \in DerivedGeoms, c \in NuleIds, naziv \in PoljeNazivi :
         BeforeInsertPoljeGpr(g, c, naziv)

SpecDerive == InitWrite /\ [][NextDerive]_vars

---------------------------------------------------------------------------
(* Statements of a client on the tables that the triggers maintain:        *)
(* projekti and povrsine_po_datumu carry no trigger and no check           *)
(* constraint on the area columns.                                         *)

\* The areas such a statement gives, in ten-thousandths.
DirectAreas == {0, 5000}

\* UPDATE projekti SET total_pov_mag = mag, total_pov_gpr = gpr
\* WHERE projekat_id = p
UpdateProjektiTotals(p, mag, gpr) ==
    /\ outcome.n < MaxOps
    /\ projekti' = [projekti EXCEPT ![p] = [@ EXCEPT !.total_pov_mag = mag,
                                                     !.total_pov_gpr = gpr]]
    /\ outcome' = Did("UPDATE", "projekti", p, "ok")
    /\ UNCHANGED <<polja_mag, polja_gpr, povrsine_po_datumu, tx, rest>>

\* UPDATE povrsine_po_datumu SET pov_mag = mag, pov_gpr = gpr
\* WHERE projekat_id = k[1] AND datum = k[2]
UpdatePovrsinePoDatumu(k, mag, gpr) ==
    /\ outcome.n < MaxOps
    /\ k \in DOMAIN povrsine_po_datumu
    /\ povrsine_po_datumu' =
         Put(povrsine_po_datumu, k,
             [povrsine_po_datumu[k] EXCEPT !.pov_mag = mag, !.pov_gpr = gpr])
    /\ outcome' = Did("UPDATE", "povrsine_po_datumu", k, "ok")
    /\ UNCHANGED <<polja_mag, polja_gpr, projekti, tx, rest>>

NextDirect ==
    \/ \E id \in MagIds, p \in Projects, d \in Dates, g \in {UnitSquare, WideRect} :
         InsertMag(id, p, d, g)
    \/ \E id \in GprIds, p \in Projects, d \in Dates, g \in {UnitSquare, WideRect} :
         InsertGpr(id, p, d, g)
    \/ \E p \in Projects, mag \in DirectAreas, gpr \in DirectAreas :
         UpdateProjektiTotals(p, mag, gpr)
    \/ \E p \in Projects, d \in Dates, mag \in DirectAreas, gpr \in DirectAreas :
         UpdatePovrsinePoDatumu(<<p, d>>, mag, gpr)

SpecDirect == Init /\ [][NextDirect]_vars

---------------------------------------------------------------------------
(* The corner vocabulary: table nule with the trigger immutable_trigger    *)
(* that register_immutability_triggers creates on it.                      *)

\* The names a statement gives: those of the vocabulary.
NuleNazivi == {"sever", "jug", "istok", "zapad"}

\* Variant: the trigger is created BEFORE UPDATE only.
immutable_trigger_UpdateOnly(TG_OP) == TG_OP = "UPDATE"

\* immutable_trigger: BEFORE UPDATE OR DELETE ON nule FOR EACH ROW.
immutable_trigger(TG_OP) == TG_OP \in {"UPDATE", "DELETE"}

\* prevent_changes(): RAISE EXCEPTION
prevent_changes == "This table is immutable"

\* What a statement on nule reports: its kind, the key it addressed, the
\* number of rows it matched, and the error it raised, "" when none.
DidNula(op, id, rows, error) ==
    [op |-> op, table |-> "nule", id |-> id,
     result |-> IF error = "" THEN "ok" ELSE "rejected",
     rows |-> rows, error |-> error]

NuleFrame ==
    UNCHANGED <<polja_mag, polja_gpr, povrsine_po_datumu, projekti, tx, tacke,
                dsm_rasteri, grids, profili_mag, profili_gpr, chain,
                georadari, antene>>

\* INSERT INTO nule (nule_naziv) VALUES (naziv): refused by the unique index
\* when the name is taken.
InsertNula(id, naziv) ==
    /\ DOMAIN nule # NuleIds
    /\ id = NextId(nule, NuleIds)
    /\ IF \E i \in DOMAIN nule : nule[i] = naziv
       THEN /\ nule' = nule
            /\ outcome' = DidNula("INSERT", id, 0, "duplicate key")
       ELSE /\ nule' = Put(nule, id, naziv)
            /\ outcome' = DidNula("INSERT", id, 1, "")
    /\ NuleFrame

\* UPDATE nule SET nule_naziv = naziv WHERE nule_id = id: the trigger fires
\* for the row the statement matches, before the row is changed.
UpdateNula(id, naziv) ==
    /\ IF id \notin DOMAIN nule
       THEN /\ nule' = nule
            /\ outcome' = DidNula("UPDATE", id, 0, "")
       ELSE IF immutable_trigger("UPDATE")
       THEN /\ nule' = nule
            /\ outcome' = DidNula("UPDATE", id, 1, prevent_changes)
       ELSE IF \E i \in DOMAIN nule \ {id} : nule[i] = naziv
       THEN /\ nule' = nule
            /\ outcome' = DidNula("UPDATE", id, 1, "duplicate key")
       ELSE /\ nule' = Put(nule, id, naziv)
            /\ outcome' = DidNula("UPDATE", id, 1, "")
    /\ NuleFrame

\* DELETE FROM nule WHERE nule_id = id
DeleteNula(id) ==
    /\ IF id \notin DOMAIN nule
       THEN /\ nule' = nule
            /\ outcome' = DidNula("DELETE", id, 0, "")
       ELSE IF immutable_trigger("DELETE")
       THEN /\ nule' = nule
            /\ outcome' = DidNula("DELETE", id, 1, prevent_changes)
       ELSE /\ nule' = Drop(nule, id)
            /\ outcome' = DidNula("DELETE", id, 1, "")
    /\ NuleFrame

\* The database after create_db_and_tables and
\* register_immutability_triggers: nule is empty and carries the trigger.
InitNule ==
    /\ polja_mag = EmptyTable
    /\ polja_gpr = EmptyTable
    /\ povrsine_po_datumu = EmptyTable
    /\ projekti = [p \in Projects |-> Projekat]
    /\ tx = NoTx
    /\ RestInit
    /\ outcome = [op |-> "NONE", table |-> "", id |-> 0, result |-> "ok",
                  rows |-> 0, error |-> ""]

NextNule ==
    \/ \E id \in NuleIds, naziv \in NuleNazivi : InsertNula(id, naziv)
    \/ \E id \in NuleIds, naziv \in NuleNazivi : UpdateNula(id, naziv)
    \/ \E id \in NuleIds : DeleteNula(id)

SpecNule == InitNule /\ [][NextNule]_vars

---------------------------------------------------------------------------
(* The chain of a mutation: the statement a client issues, the row         *)
(* triggers it fires, the statements their functions run and the triggers  *)
(* those fire in turn.  chain is the stack of what is under way: a         *)
(* statement with the triggers it has yet to fire, or a trigger function   *)
(* with the statements it has yet to run.                                  *)

MaxDepth == 4

\* The row triggers that register_triggers creates on the tables of
\* points, fields and profiles, in the order in which a statement fires
\* them: the BEFORE triggers by name, then the AFTER triggers by name.
\* columns is the list of UPDATE OF, empty when the trigger has none.
\* TriggersOf keeps those the database still has.
Triggers ==
    <<[name |-> "trg_update_tacka_z", table |-> "tacke",
       events |-> {"INSERT", "UPDATE"}, columns |-> {"geom"},
       function |-> "update_tacka_z"],
      [name |-> "trg_check_pogresni_redovi_unique", table |-> "polja_mag",
       events |-> {"INSERT", "UPDATE"},
       columns |-> {},
       function |-> "check_pogresni_redovi_unique"],
      [name |-> "trigger_calculate_mag_angle", table |-> "polja_mag",
       events |-> {"INSERT", "UPDATE"}, columns |-> {"geom", "nule_id"},
       function |-> "calculate_mag_nula_angle"],
      [name |-> "trigger_calculate_mag_profile_dimensions",
       table |-> "polja_mag", events |-> {"INSERT", "UPDATE"},
       columns |-> {"geom", "nule_id"},
       function |-> "calculate_mag_profile_dimensions"],
      [name |-> "trigger_calculate_nula_xy", table |-> "polja_mag",
       events |-> {"INSERT", "UPDATE"},
       columns |-> {"geom", "nule_id"},
       function |-> "calculate_nula_xy_coordinates"],
      [name |-> "trigger_calculate_gpr_angle", table |-> "polja_gpr",
       events |-> {"INSERT", "UPDATE"}, columns |-> {"geom", "nule_id"},
       function |-> "calculate_gpr_nula_angle"],
      [name |-> "trigger_calculate_nula_xy", table |-> "polja_gpr",
       events |-> {"INSERT", "UPDATE"},
       columns |-> {"geom", "nule_id"},
       function |-> "calculate_nula_xy_coordinates"],
      [name |-> "trigger_check_gpr_antena_proizvodjac", table |-> "polja_gpr",
       events |-> {"INSERT", "UPDATE"},
       columns |-> {"gpr_id", "antena_id"},
       function |-> "check_gpr_antena_proizvodjac"],
      [name |-> "trg_polja_mag_update_povrsine", table |-> "polja_mag",
       events |-> {"INSERT", "UPDATE", "DELETE"},
       columns |-> {},
       function |-> "update_povrsine_po_datumu"],
      [name |-> "trg_update_project_mag_area", table |-> "polja_mag",
       events |-> {"INSERT", "UPDATE", "DELETE"},
       columns |-> {},
       function |-> "update_project_mag_area"],
      [name |-> "trg_polja_gpr_update_povrsine", table |-> "polja_gpr",
       events |-> {"INSERT", "UPDATE", "DELETE"},
       columns |-> {},
       function |-> "update_povrsine_po_datumu"],
      [name |-> "trg_update_project_gpr_area", table |-> "polja_gpr",
       events |-> {"INSERT", "UPDATE", "DELETE"},
       columns |-> {},
       function |-> "update_project_gpr_area"]>>

\* The events of a statement: INSERT ... ON CONFLICT DO UPDATE inserts or
\* updates.
EventsOf(op) == IF op = "UPSERT" THEN {"INSERT", "UPDATE"} ELSE {op}

\* The triggers a statement on the table fires, in firing order; set is
\* the columns its SET list names.  A trigger of UPDATE OF fires on an
\* UPDATE only when the SET list names one of its columns.
TriggersOf(table, op, set) ==
    LET fires(t) ==
            /\ t.table = table
            /\ Installed(t.table, t.name)
            /\ \/ t.events \cap (EventsOf(op) \ {"UPDATE"}) # {}
               \/ /\ "UPDATE" \in t.events \cap EventsOf(op)
                  /\ t.columns = {} \/ t.columns \cap set # {}
    IN SelectSeq(Triggers, fires)

UpdateProjekti(column) ==
    [table |-> "projekti", op |-> "UPDATE", set |-> {column}]
UpsertPovrsine ==
    [table |-> "povrsine_po_datumu", op |-> "UPSERT",
     set |-> {"pov_mag", "pov_gpr"}]
UpdatePovrsine ==
    [table |-> "povrsine_po_datumu", op |-> "UPDATE",
     set |-> {"pov_mag", "pov_gpr"}]

\* Variant: update_project_mag_area also writes the total back to the mag
\* fields of the project.
Paths_WritesBack(function, TG_OP) ==
    IF function = "update_project_mag_area"
    THEN {<<UpdateProjekti("total_pov_mag"),
            [table |-> "polja_mag", op |-> "UPDATE",
             set |-> {"total_pov_mag"}]>>}
    ELSE IF function = "update_project_gpr_area"
    THEN LET U == UpdateProjekti("total_pov_gpr")
         IN IF TG_OP = "UPDATE" THEN {<<U>>, <<U, U>>} ELSE {<<U>>}
    ELSE IF function = "update_povrsine_po_datumu"
    THEN IF TG_OP = "INSERT" THEN {<<>>, <<UpsertPovrsine>>}
         ELSE IF TG_OP = "UPDATE"
         THEN {<<>>, <<UpdatePovrsine>>, <<UpsertPovrsine, UpdatePovrsine>>}
         ELSE {<<>>, <<UpsertPovrsine, UpdatePovrsine>>}
    ELSE {<<>>}

\* The statements a trigger function runs, one sequence for each path
\* through its body.
Paths(function, TG_OP) ==
    IF function \in {"update_project_mag_area", "update_project_gpr_area"}
    THEN LET U == UpdateProjekti(IF function = "update_project_mag_area"
                                 THEN "total_pov_mag" ELSE "total_pov_gpr")
         IN IF TG_OP = "UPDATE" THEN {<<U>>, <<U, U>>} ELSE {<<U>>}
    ELSE IF function = "update_povrsine_po_datumu"
    THEN IF TG_OP = "INSERT" THEN {<<>>, <<UpsertPovrsine>>}
         ELSE IF TG_OP = "UPDATE"
         THEN {<<>>, <<UpdatePovrsine>>, <<UpsertPovrsine, UpdatePovrsine>>}
         ELSE {<<>>, <<UpsertPovrsine, UpdatePovrsine>>}
    ELSE {<<>>}

\* The functions that can RAISE EXCEPTION.
Raising == {"check_pogresni_redovi_unique", "check_gpr_antena_proizvodjac"}

StatementFrame(table, op, set) ==
    [kind |-> "statement", table |-> table, op |-> op, set |-> set,
     todo |-> TriggersOf(table, op, set)]

Top == chain[Len(chain)]
Pop == SubSeq(chain, 1, Len(chain) - 1)

ChainFrame ==
    UNCHANGED <<polja_mag, polja_gpr, povrsine_po_datumu, projekti, tx, tacke,
                dsm_rasteri, grids, nule, profili_mag, profili_gpr,
                georadari, antene>>

\* A client issues an INSERT, UPDATE or DELETE of a point, field or
\* profile; set is the SET list of the UPDATE.
Begin(table, op, set) ==
    /\ chain = <<>>
    /\ chain' = <<StatementFrame(table, op, set)>>
    /\ outcome' = [op |-> op, table |-> table, id |-> 0, result |-> "running"]
    /\ ChainFrame

\* The statement on top fires its next trigger, whose function takes one of
\* its paths.
Fire ==
    /\ chain # <<>>
    /\ Len(chain) < MaxDepth
    /\ Top.kind = "statement"
    /\ Top.todo # <<>>
    /\ \E path \in Paths(Head(Top.todo).function, Top.op) :
         chain' = Append(Append(Pop, [Top EXCEPT !.todo = Tail(@)]),
                         [kind |-> "function", table |-> Top.table,
                          op |-> Top.op, set |-> Top.set, name |-> Head(Top.todo).function,
                          todo |-> path])
    /\ UNCHANGED outcome
    /\ ChainFrame

\* The function on top runs its next statement.
Run ==
    /\ chain # <<>>
    /\ Len(chain) < MaxDepth
    /\ Top.kind = "function"
    /\ Top.todo # <<>>
    /\ chain' = Append(Append(Pop, [Top EXCEPT !.todo = Tail(@)]),
                       StatementFrame(Head(Top.todo).table, Head(Top.todo).op,
                                      Head(Top.todo).set))
    /\ UNCHANGED outcome
    /\ ChainFrame

\* The function on top raises: the whole mutation is undone and ends.
Raise ==
    /\ chain # <<>>
    /\ Top.kind = "function"
    /\ Top.name \in Raising
    /\ chain' = <<>>
    /\ outcome' = [outcome EXCEPT !.result = "rejected"]
    /\ ChainFrame

\* The statement or function on top has nothing left to do and returns.
Return ==
    /\ chain # <<>>
    /\ Top.todo = <<>>
    /\ chain' = Pop
    /\ outcome' = IF Len(chain) = 1 THEN [outcome EXCEPT !.result = "ok"]
                  ELSE outcome
    /\ ChainFrame

InitChain ==
    /\ polja_mag = EmptyTable
    /\ polja_gpr = EmptyTable
    /\ povrsine_po_datumu = EmptyTable
    /\ projekti = [p \in Projects |-> Projekat]
    /\ tx = NoTx
    /\ RestInit
    /\ outcome = [op |-> "NONE", table |-> "", id |-> 0, result |-> "ok"]

ClientTables == {"tacke", "polja_mag", "polja_gpr", "profili_mag", "profili_gpr"}

\* The columns of a table that the SET list of a client's UPDATE names.
ColumnsOf(table) ==
    IF table = "tacke" THEN {"geom", "z"}
    ELSE IF table = "polja_mag" THEN {"geom", "nule_id", "datum"}
    ELSE IF table = "polja_gpr"
    THEN {"geom", "nule_id", "polje_naziv", "gpr_id", "antena_id"}
    ELSE {"geom", "profil_naziv"}

\* The SET lists of a statement: none but for an UPDATE.
SetLists(table, op) ==
    IF op = "UPDATE" THEN SUBSET ColumnsOf(table) \ {{}} ELSE {{}}

Progress == Fire \/ Run \/ Raise \/ Return

NextChain ==
    \/ \E table \in ClientTables, op \in {"INSERT", "UPDATE", "DELETE"} :
         \E set \in SetLists(table, op) : Begin(table, op, set)
    \/ Fire
    \/ Run
    \/ Raise
    \/ Return

\* The server runs a mutation it has begun until it ends.
SpecChain == InitChain /\ [][NextChain]_vars /\ WF_vars(Progress)

---------------------------------------------------------------------------
(* Vocabulary of the properties *)

Modalities == {"mag", "gpr"}

Tbl(m) == IF m = "mag" THEN polja_mag ELSE polja_gpr
TableName(m) == IF m = "mag" THEN "polja_mag" ELSE "polja_gpr"
\* The value of modality m in a coverage entry or a field row.
Pov(r, m) == IF m = "mag" THEN r.pov_mag ELSE r.pov_gpr
Total(p, m) ==
    IF m = "mag" THEN projekti[p].total_pov_mag ELSE projekti[p].total_pov_gpr

\* The rows of project p in a field table, and those among them on date d,
\* before date d, and on or after date d.
RowsOf(tbl, p) == {i \in DOMAIN tbl : tbl[i].projekat_id = p}
RowsOn(tbl, p, d) == {i \in RowsOf(tbl, p) : tbl[i].datum = d}
RowsBefore(tbl, p, d) ==
    {i \in RowsOf(tbl, p) : tbl[i].datum # NoDate /\ tbl[i].datum < d}
RowsFrom(tbl, p, d) ==
    {i \in RowsOf(tbl, p) : tbl[i].datum # NoDate /\ tbl[i].datum >= d}

\* The area newly covered on date d: the cells some field of the date covers
\* and no field of an earlier date covers.
NewlyCovered(tbl, p, d) ==
    {c \in Cells :
        /\ \E i \in RowsOn(tbl, p, d) : Inside(c, tbl[i].geom)
        /\ \A j \in RowsBefore(tbl, p, d) : ~Inside(c, tbl[j].geom)}
NonOverlapArea(tbl, p, d) == 10000 * Cardinality(NewlyCovered(tbl, p, d))

\* The coverage entry k holds, for modality m, the non-overlapping area of
\* the field table tbl.
EntryExact(ppd, k, m, tbl) == Pov(ppd[k], m) = NonOverlapArea(tbl, k[1], k[2])

\* The step is the statement op on the table of modality m, not rejected.
Step(op, m) ==
    /\ outcome'.n = outcome.n + 1
    /\ outcome'.op = op
    /\ outcome'.table = TableName(m)
    /\ outcome'.result = "ok"

\* The row the step wrote, before and after the step.
Before(m) == Tbl(m)[outcome'.id]
After(m) == Tbl(m)'[outcome'.id]

Covers(g1, g2) == \A c \in Cells : Inside(c, g2) => Inside(c, g1)

---------------------------------------------------------------------------
(* C1 *)

\* First insert of the scenario: project p has no field of modality m and
\* gets one on a date.
C1FirstInsert(m, p) ==
    /\ Step("INSERT", m)
    /\ RowsOf(Tbl(m), p) = {}
    /\ After(m).projekat_id = p
    /\ After(m).datum # NoDate

\* Second insert: p has exactly the first field f1, its entry holds f1's
\* area, and a field on a later date that f1 covers is inserted.
C1SecondInsert(m, p, i1) ==
    /\ Step("INSERT", m)
    /\ RowsOf(Tbl(m), p) = {i1}
    /\ Tbl(m)[i1].datum # NoDate
    /\ <<p, Tbl(m)[i1].datum>> \in DOMAIN povrsine_po_datumu
    /\ Pov(povrsine_po_datumu[<<p, Tbl(m)[i1].datum>>], m) = Pov(Tbl(m)[i1], m)
    /\ After(m).projekat_id = p
    /\ After(m).datum # NoDate
    /\ After(m).datum > Tbl(m)[i1].datum
    /\ Covers(Tbl(m)[i1].geom, After(m).geom)

\* Delete: p has exactly f1 on D1 and f2 on a later D2, f1 covering f2, and
\* f1 is deleted.
C1Delete(m, p, i1, i2) ==
    /\ Step("DELETE", m)
    /\ outcome'.id = i1
    /\ i1 # i2
    /\ RowsOf(Tbl(m), p) = {i1, i2}
    /\ Tbl(m)[i1].datum # NoDate
    /\ Tbl(m)[i2].datum # NoDate
    /\ Tbl(m)[i2].datum > Tbl(m)[i1].datum
    /\ Covers(Tbl(m)[i1].geom, Tbl(m)[i2].geom)

C1Scenario ==
    \A m \in Modalities, p \in Projects :
        /\ C1FirstInsert(m, p) =>
             /\ <<p, After(m).datum>> \in DOMAIN povrsine_po_datumu'
             /\ Pov(povrsine_po_datumu'[<<p, After(m).datum>>], m)
                  = Pov(After(m), m)
        /\ \A i1 \in DOMAIN Tbl(m) :
             C1SecondInsert(m, p, i1) =>
               /\ <<p, After(m).datum>> \in DOMAIN povrsine_po_datumu'
               /\ Pov(povrsine_po_datumu'[<<p, Tbl(m)[i1].datum>>], m)
                    = Pov(Tbl(m)[i1], m)
               /\ Pov(povrsine_po_datumu'[<<p, After(m).datum>>], m) = 0
        /\ \A i1, i2 \in DOMAIN Tbl(m) :
             C1Delete(m, p, i1, i2) =>
               /\ <<p, Tbl(m)[i2].datum>> \in DOMAIN povrsine_po_datumu'
               /\ Pov(povrsine_po_datumu'[<<p, Tbl(m)[i2].datum>>], m)
                    = Pov(Tbl(m)[i2], m)

\* C1: in one project and one modality, the first field inserted on a date
\* D1 gives the entry of D1 its area; a field then inserted on a later date
\* D2 and covered by the first leaves the entry of D1 at that area and gives
\* the entry of D2 the value 0; deleting the D1 field then gives the entry of
\* D2 the area of the D2 field.
C1_CascadeOnEarlierDeletion == [][C1Scenario]_vars

\* The scenario has run to its end: three statements, the last the delete of
\* the first field; the second field is alone in its project, its entry holds
\* its area and the entry of the earlier date holds 0.
C1_Witness ==
    \E m \in Modalities, p \in Projects, d1, d2 \in Dates :
        /\ outcome.n = 3
        /\ outcome.op = "DELETE"
        /\ outcome.table = TableName(m)
        /\ outcome.id = 1
        /\ DOMAIN Tbl(m) = {2}
        /\ Tbl(m)[2].projekat_id = p
        /\ Tbl(m)[2].datum = d2
        /\ d1 < d2
        /\ {<<p, d1>>, <<p, d2>>} \subseteq DOMAIN povrsine_po_datumu
        /\ Pov(povrsine_po_datumu[<<p, d1>>], m) = 0
        /\ Pov(povrsine_po_datumu[<<p, d2>>], m) = Pov(Tbl(m)[2], m)
        /\ Pov(Tbl(m)[2], m) > 0

---------------------------------------------------------------------------
(* C2 *)

\* Every coverage entry of project p holds, for modality m, the value a full
\* recomputation over the current fields gives.
LedgerExact(ppd, p, m, tbl) ==
    \A k \in DOMAIN ppd : k[1] = p => EntryExact(ppd, k, m, tbl)

\* C2: the values stored for a set of dated fields of one project and one
\* modality do not depend on the order of the inserts, each being the value
\* of a full recomputation: an insert into a project whose entries all hold
\* the recomputed values leaves them all holding the recomputed values.
C2_InsertOrderIndependent ==
    [][\A m \in Modalities, p \in Projects :
         (/\ Step("INSERT", m)
          /\ After(m).projekat_id = p
          /\ LedgerExact(povrsine_po_datumu, p, m, Tbl(m)))
         => LedgerExact(povrsine_po_datumu', p, m, Tbl(m)')]_vars

---------------------------------------------------------------------------
(* C3 *)

\* The project and the date the statement affects (v_projekat_id, v_datum of
\* the claim: the new row's on INSERT and UPDATE, the old row's on DELETE).
AffectedRow(m) == IF outcome'.op = "DELETE" THEN Before(m) ELSE After(m)

\* C3: after an insert, update or delete of a field with date D in project
\* P, every coverage entry of P dated strictly later than D holds, for the
\* field's modality, the non-overlapping area of the fields as they are
\* after the statement.
C3_LaterEntriesRecomputed ==
    [][\A m \in Modalities :
         (/\ \E op \in {"INSERT", "UPDATE", "DELETE"} : Step(op, m)
          /\ AffectedRow(m).datum # NoDate)
         => \A k \in DOMAIN povrsine_po_datumu' :
              (k[1] = AffectedRow(m).projekat_id /\ k[2] > AffectedRow(m).datum)
              => EntryExact(povrsine_po_datumu', k, m, Tbl(m)')]_vars

---------------------------------------------------------------------------
(* C4 *)

\* The step is an UPDATE that moves a field of project p from one date to
\* another, staying in p.
MovesDate(m, p) ==
    /\ Step("UPDATE", m)
    /\ Before(m).projekat_id = p
    /\ After(m).projekat_id = p
    /\ Before(m).datum # NoDate
    /\ After(m).datum # NoDate
    /\ Before(m).datum # After(m).datum

\* Both values of every entry of p dated on or after d are the recomputed ones.
RecomputedFrom(ppd, p, d, mag, gpr) ==
    \A k \in DOMAIN ppd :
        (k[1] = p /\ k[2] >= d) =>
            /\ EntryExact(ppd, k, "mag", mag)
            /\ EntryExact(ppd, k, "gpr", gpr)

\* C4: an update that moves a field from oldDate to newDate leaves every
\* entry of the project dated at or after min(oldDate, newDate) recomputed
\* against the fields as they are after the update, whichever of the two
\* dates is the earlier.
C4_CascadeFromMinDate ==
    [][\A m \in Modalities, p \in Projects :
         MovesDate(m, p) =>
           RecomputedFrom(povrsine_po_datumu', p,
                          Min({Before(m).datum, After(m).datum}),
                          polja_mag', polja_gpr')]_vars

---------------------------------------------------------------------------
(* C5 *)

\* C5: after an insert, update or delete of a field with a non-null date D,
\* the entry of (project, D) exists and holds, for each modality, the area of
\* the date's fields outside all fields of strictly earlier dates.
C5_AffectedEntryUpserted ==
    [][\A m \in Modalities :
         (/\ \E op \in {"INSERT", "UPDATE", "DELETE"} : Step(op, m)
          /\ AffectedRow(m).datum # NoDate)
         => LET k == <<AffectedRow(m).projekat_id, AffectedRow(m).datum>>
            IN /\ k \in DOMAIN povrsine_po_datumu'
               /\ EntryExact(povrsine_po_datumu', k, "mag", polja_mag')
               /\ EntryExact(povrsine_po_datumu', k, "gpr", polja_gpr')]_vars

\* A field was just inserted on a date on which an earlier-dated field of its
\* project overlaps it only in part: the entry holds the part newly covered,
\* which is neither 0 nor the field's whole area.
C5_Witness ==
    \E m \in Modalities, p \in Projects, d \in Dates :
        /\ outcome.op = "INSERT"
        /\ outcome.table = TableName(m)
        /\ outcome.result = "ok"
        /\ outcome.id \in DOMAIN Tbl(m)
        /\ Tbl(m)[outcome.id].projekat_id = p
        /\ Tbl(m)[outcome.id].datum = d
        /\ RowsBefore(Tbl(m), p, d) # {}
        /\ <<p, d>> \in DOMAIN povrsine_po_datumu
        /\ Pov(povrsine_po_datumu[<<p, d>>], m) > 0
        /\ Pov(povrsine_po_datumu[<<p, d>>], m) < Pov(Tbl(m)[outcome.id], m)

---------------------------------------------------------------------------
(* C6 *)

\* The sum of the stored areas (pov_mag / pov_gpr) of the fields of modality
\* m that reference project p.
SumOfFieldAreas(p, m) ==
    LET rows == RowsOf(Tbl(m), p)
    IN SumOver(rows, [i \in rows |-> Pov(Tbl(m)[i], m)])

\* C6: in every reachable state the stored total of every project
\* and modality equals the sum of the areas of its current fields.
C6_TotalAlwaysSum ==
    \A p \in Projects, m \in Modalities : Total(p, m) = SumOfFieldAreas(p, m)

\* The sum of the areas of the geometries of those fields, rounded to the
\* three decimals of the total's column.
SumOfGeometryAreas(p, m) ==
    LET rows == RowsOf(Tbl(m), p)
    IN Round3(SumOver(rows, [i \in rows |-> ST_Area(Tbl(m)[i].geom)]))

\* What the triggers do keep: a project's total of a modality is either
\* still NULL, and then the project has no field of that modality, or it
\* equals the sum of the areas of the geometries of its current fields of
\* that modality, rounded to three decimals.
TotalIsSumOnceSet ==
    \A p \in Projects, m \in Modalities :
        IF Total(p, m) = Null
        THEN RowsOf(Tbl(m), p) = {}
        ELSE Total(p, m) = SumOfGeometryAreas(p, m)

---------------------------------------------------------------------------
(* C7 *)

\* The step deletes the last field of modality m that project p had on date d.
DeletesLastOfDate(m, p, d) ==
    /\ Step("DELETE", m)
    /\ Before(m).projekat_id = p
    /\ Before(m).datum = d
    /\ RowsOn(Tbl(m)', p, d) = {}

\* C7 as stated: when the last field of a date is deleted, the entry of the
\* date is recomputed and kept if a field of the project and modality
\* remains at or after the date, and removed if none remains.
C7_OrphanEntryRemoved ==
    [][\A m \in Modalities, p \in Projects, d \in Dates :
         DeletesLastOfDate(m, p, d) =>
           IF RowsFrom(Tbl(m)', p, d) # {}
           THEN /\ <<p, d>> \in DOMAIN povrsine_po_datumu'
                /\ EntryExact(povrsine_po_datumu', <<p, d>>, m, Tbl(m)')
           ELSE <<p, d>> \notin DOMAIN povrsine_po_datumu']_vars

\* C7 amended: when the last field of a date is deleted, the entry of the
\* date is recomputed (to 0 for that modality) and kept, whether or not a
\* field remains at or after the date; no statement removes an entry.
C7_EntryKeptAndRecomputed ==
    [][/\ \A m \in Modalities, p \in Projects, d \in Dates :
            DeletesLastOfDate(m, p, d) =>
              /\ <<p, d>> \in DOMAIN povrsine_po_datumu'
              /\ Pov(povrsine_po_datumu'[<<p, d>>], m) = 0
              /\ EntryExact(povrsine_po_datumu', <<p, d>>, m, Tbl(m)')
       /\ DOMAIN povrsine_po_datumu \subseteq DOMAIN povrsine_po_datumu']_vars

\* The only field of a project has just been deleted: no field remains at or
\* after its date, and the entry of the date is still there, holding 0.
C7_Witness ==
    \E m \in Modalities, p \in Projects, d \in Dates :
        /\ outcome.op = "DELETE"
        /\ outcome.table = TableName(m)
        /\ RowsFrom(Tbl(m), p, d) = {}
        /\ <<p, d>> \in DOMAIN povrsine_po_datumu
        /\ Pov(povrsine_po_datumu[<<p, d>>], m) = 0
        /\ outcome.n = 2

---------------------------------------------------------------------------
(* C9 *)

\* C9: in every reachable state both area values of every coverage entry are
\* set and not negative.
C9_CoverageNonNegative ==
    \A k \in DOMAIN povrsine_po_datumu :
        /\ povrsine_po_datumu[k].pov_mag >= 0
        /\ povrsine_po_datumu[k].pov_gpr >= 0

\* An entry holds 0 for a date that has a field: the field lies wholly
\* inside the fields of earlier dates, whose area is larger than its own.
C9_Witness ==
    \E m \in Modalities, k \in DOMAIN povrsine_po_datumu :
        /\ Pov(povrsine_po_datumu[k], m) = 0
        /\ \E i \in RowsOn(Tbl(m), k[1], k[2]) :
             \E j \in RowsBefore(Tbl(m), k[1], k[2]) :
                Pov(Tbl(m)[j], m) > Pov(Tbl(m)[i], m)

---------------------------------------------------------------------------
(* C10 *)

\* The rectangle test of the claim: 5 ring coordinates and an area within
\* 1e-4 of the area of the minimum rotated bounding rectangle.
IsRectangle(g) == ck_rectangular_polygon(g)

\* C10: every persisted field, magnetometer or radar, has a geometry that
\* passes the rectangle test.
C10_PersistedFieldsRectangular ==
    /\ \A i \in DOMAIN polja_mag : IsRectangle(polja_mag[i].geom)
    /\ \A i \in DOMAIN polja_gpr : IsRectangle(polja_gpr[i].geom)

---------------------------------------------------------------------------
(* C8 *)

\* The committed tables after the sessions' inserts have run one after the
\* other, in the order given, on the database as created.
RECURSIVE SerialRun(_)
SerialRun(order) ==
    IF order = <<>>
    THEN [mag |-> EmptyTable, ppd |-> EmptyTable,
          prj |-> [p \in Projects |-> Projekat]]
    ELSE LET st == SerialRun(SubSeq(order, 1, Len(order) - 1))
             s == order[Len(order)]
             mag == Put(st.mag, s, tx[s].row)
         IN [mag |-> mag,
             ppd |-> update_povrsine_po_datumu("INSERT", NoRow, tx[s].row,
                                               mag, polja_gpr, st.ppd),
             prj |-> update_project_mag_area("INSERT", NoRow, tx[s].row,
                                             mag, st.prj)]

\* The sessions that committed, and the orders in which they can be run
\* one after the other.
Committed == {s \in Sessions : tx[s].pc = "committed"}
Orders ==
    {o \in [1..Cardinality(Committed) -> Committed] :
        \A a, b \in DOMAIN o : o[a] = o[b] => a = b}

\* Two sessions or more have committed and none is under way.
AllCommitted ==
    /\ Cardinality(Committed) >= 2
    /\ \A s \in Sessions : tx[s].pc \in {"idle", "committed"}

SameKey ==
    \A s, t \in Committed :
        /\ tx[s].row.projekat_id = tx[t].row.projekat_id
        /\ tx[s].row.datum = tx[t].row.datum

\* C8: concurrent inserts of fields with the same project, modality and date
\* are serialized: once all have committed, the coverage entries and the
\* project totals are those of the inserts run one after the other in some
\* order.
C8_SameKeySerialized ==
    (AllCommitted /\ SameKey) =>
        \E o \in Orders :
            /\ povrsine_po_datumu = SerialRun(o).ppd
            /\ projekti = SerialRun(o).prj

---------------------------------------------------------------------------
(* Points and their elevation *)

\* The statement just run wrote a point and its trigger resolved the
\* elevation of the location the statement gave.
Resolved ==
    /\ outcome.table = "tacke"
    /\ outcome.calls = 1
    /\ outcome.geom # NoGeom

NoRasterAt(g) == \A i \in 1..Len(dsm_rasteri) : ~ST_Intersects(dsm_rasteri[i], g)

\* C13: the elevation resolved for a location that no raster of the store
\* intersects is exactly 0.0: the statement succeeds and the stored z is 0,
\* not NULL.
C13_NoRasterGivesZero ==
    (Resolved /\ NoRasterAt(outcome.geom)) =>
        /\ outcome.result = "ok"
        /\ outcome.id \in DOMAIN tacke
        /\ tacke[outcome.id].z = 0

\* A point was written with a supplied height at a location outside every
\* raster of a non-empty store, and its z is 0.
C13_Witness ==
    /\ Resolved
    /\ NoRasterAt(outcome.geom)
    /\ dsm_rasteri # <<>>
    /\ outcome.z # Null
    /\ tacke[outcome.id].z = 0

FoundValue == Resolved /\ RasterElevation(dsm_rasteri, outcome.geom) # Null

\* C14: when a raster value is found, the primary geoid transform is tried
\* first, the secondary one exactly when the primary failed, and the fixed
\* offset of 43.0 is subtracted exactly when both failed; a value is always
\* stored (with a grid, the raster value less the height the transform
\* returned), the statement succeeds, and the warning is raised exactly in
\* the fixed-offset case.
C14_GeoidFallbackOrder ==
    FoundValue =>
        LET e == RasterElevation(dsm_rasteri, outcome.geom)
            z == tacke[outcome.id].z
            none == grids \cap GeoidGrids = {}
        IN /\ outcome.result = "ok"
           /\ z # Null
           /\ Len(outcome.tried) >= 1
           /\ outcome.tried[1] = PrimaryGrid
           /\ (PrimaryGrid \in grids <=> Len(outcome.tried) = 1)
           /\ (PrimaryGrid \notin grids => outcome.tried = <<PrimaryGrid, SecondaryGrid>>)
           /\ z = IF none THEN RoundNumeric3(e - ApproximateUndulation)
                  ELSE RoundNumeric3(e - (e + GeoidUndulation))
           /\ (outcome.warned <=> none)

\* A raster value was found while only the secondary grid could be opened:
\* both transforms were tried and no warning was raised.
C14_Witness ==
    /\ FoundValue
    /\ grids = {SecondaryGrid}
    /\ outcome.tried = <<PrimaryGrid, SecondaryGrid>>
    /\ ~outcome.warned

\* The statement just run is an accepted INSERT or UPDATE of a point.
WrotePoint ==
    /\ outcome.table = "tacke"
    /\ outcome.op \in {"INSERT", "UPDATE"}
    /\ outcome.result = "ok"

\* The stored x and y of the row are the coordinates of its geometry to
\* three decimals, absent when the geometry is.
CoordinatesAgree(row) ==
    /\ row.geom = NoGeom => (row.x = Null /\ row.y = Null)
    /\ row.geom # NoGeom =>
         /\ Abs(row.x - ST_X(row.geom)) <= 5
         /\ Abs(row.y - ST_Y(row.geom)) <= 5
         /\ row.x % 10 = 0
         /\ row.y % 10 = 0

\* C15: after an INSERT or UPDATE of a point, the stored x and y are the
\* coordinates of the stored geometry to three decimals (absent when the
\* geometry is), and the stored z is either the height the statement
\* supplied, as the column keeps it, or the result of the one elevation
\* resolution the statement ran.
C15_PointConsistentAfterWrite ==
    WrotePoint =>
        LET row == tacke[outcome.id]
        IN /\ CoordinatesAgree(row)
           /\ outcome.calls \in {0, 1}
           /\ outcome.calls = 0 =>
                /\ "z" \in outcome.set
                /\ row.z = IF outcome.z = Null THEN Null ELSE RoundNumeric3(outcome.z)
           /\ outcome.calls = 1 =>
                row.z = update_tacka_z([geom |-> row.geom, z |-> outcome.z],
                                       dsm_rasteri, grids).z

\* C15 amended: after an INSERT or UPDATE of a point, the stored x and y
\* are the coordinates of the stored geometry to three decimals, and the
\* stored z is the result of the one elevation resolution the statement
\* ran, or, no resolution having run, the height the statement supplied,
\* or, the statement having given neither a geometry nor a height, the z
\* stored before it.
C15_SuppliedResolvedOrKept ==
    [][(outcome'.table = "tacke" /\ outcome'.op \in {"INSERT", "UPDATE"}
        /\ outcome'.result = "ok") =>
         LET row == tacke'[outcome'.id]
             set == outcome'.set
         IN /\ CoordinatesAgree(row)
            /\ outcome'.calls \in {0, 1}
            /\ outcome'.calls = 1 <=> (outcome'.op = "INSERT" \/ "geom" \in set)
            /\ outcome'.calls = 1 =>
                 row.z = update_tacka_z([geom |-> row.geom, z |-> outcome'.z],
                                        dsm_rasteri, grids).z
            /\ (outcome'.calls = 0 /\ "z" \in set) =>
                 row.z = IF outcome'.z = Null THEN Null
                         ELSE RoundNumeric3(outcome'.z)
            /\ (outcome'.calls = 0 /\ "z" \notin set) =>
                 /\ set = {"tacka_naziv"}
                 /\ row.z = tacke[outcome'.id].z
                 /\ row.geom = tacke[outcome'.id].geom]_vars

\* An UPDATE gave only a name to a point that kept the height 77.778 an
\* earlier statement supplied, and whose x ordinate, 1.2346, is stored as
\* 1.235: no resolution ran.
C15_Witness ==
    /\ WrotePoint
    /\ outcome.op = "UPDATE"
    /\ outcome.set = {"tacka_naziv"}
    /\ outcome.calls = 0
    /\ tacke[outcome.id].z = 777780
    /\ tacke[outcome.id].geom # NoGeom
    /\ ST_X(tacke[outcome.id].geom) = 12346
    /\ tacke[outcome.id].x = 12350

\* C16: a point write that repeats the statement before it, on the same
\* row with the same columns and values and an unchanged raster store,
\* leaves the stored points as they were.
C16_RepeatedWriteIdempotent ==
    [][(outcome'.table = "tacke" /\ outcome'.again) => tacke' = tacke]_vars

\* The write of a geometry was repeated and the elevation resolved again
\* from a raster value.
C16_Witness ==
    /\ outcome.table = "tacke"
    /\ outcome.again
    /\ FoundValue
    /\ tacke[outcome.id].z # 0

\* The statement just run gave a point the geometry toPoint makes of a
\* triple (x, y, z).
WroteTriple ==
    /\ outcome.table = "tacke"
    /\ outcome.op \in {"INSERT", "UPDATE"}
    /\ "geom" \in outcome.set
    /\ outcome.geom # NoGeom
    /\ Len(outcome.geom) = 3

Within(a, b) == a # Null /\ b # Null /\ Abs(a - b) <= 10

\* C17: the geometry made of a triple (x, y, z) is stored, and the triple
\* read back from it is within 0.001 of (x, y, z) in each of the three
\* components.
C17_RoundTripXYZ ==
    WroteTriple =>
        /\ outcome.result = "ok"
        /\ outcome.id \in DOMAIN tacke
        /\ LET t == fromGeometry(tacke[outcome.id].geom)
           IN /\ Within(t[1], outcome.geom[1])
              /\ Within(t[2], outcome.geom[2])
              /\ Within(t[3], outcome.geom[3])

\* No stored geometry carries a height: what is read back from the
\* geometry of a point has no z.
NoStoredHeight ==
    \A i \in DOMAIN tacke : fromGeometry(tacke[i].geom)[3] = Null

---------------------------------------------------------------------------
(* Validations and derived attributes of a field write *)

\* C11: a write that a validation rejects (the rectangle test, the
\* right-angle test, the two-point test of a profile, the test for repeated
\* bad rows, a naming pattern) changes no record, no derived attribute, no
\* coverage entry and no project total.
C11_RejectedWriteChangesNothing ==
    [][outcome'.result = "rejected" =>
         UNCHANGED <<polja_mag, polja_gpr, profili_mag, profili_gpr,
                     povrsine_po_datumu, projekti>>]_vars

\* An UPDATE of a stored mag field, whose date has a coverage entry, was
\* rejected for its repeated bad rows.
C11_Witness ==
    /\ outcome.result = "rejected"
    /\ outcome.by = "check_pogresni_redovi_unique"
    /\ outcome.op = "UPDATE"
    /\ outcome.id \in DOMAIN polja_mag
    /\ povrsine_po_datumu # EmptyTable

\* The direction of a bearing, and whether b lies from a in that direction.
Heading(a) ==
    CASE a = 0 -> <<0, 1>>   [] a = 1 -> <<1, 1>>
      [] a = 2 -> <<1, 0>>   [] a = 3 -> <<1, -1>>
      [] a = 4 -> <<0, -1>>  [] a = 5 -> <<-1, -1>>
      [] a = 6 -> <<-1, 0>>  [] a = 7 -> <<-1, 1>>

LiesAlong(a, b, angle) ==
    /\ angle \in 0..7
    /\ \E k \in 1..(GridW + GridH) :
         b = <<a[1] + k * Heading(angle)[1], a[2] + k * Heading(angle)[2]>>

\* C12: for a stored rectangle with corner index c, vertices numbered
\* clockwise from the least one, the angle of a mag field is the bearing
\* from vertex c to vertex c + 1 (1 after 4) and the angle of a gpr field
\* the bearing from vertex c to vertex c - 1 (4 before 1); for the unit
\* square and c = 1 these are 0 (north, towards (0, 1)) and a quarter turn
\* (east, towards (1, 0)).
C12_AngleTowardsNeighbour ==
    /\ \A i \in DOMAIN polja_mag :
         LET r == polja_mag[i]
             v == ST_Normalize(r.geom)
             c == r.nule_id
         IN /\ LiesAlong(v[c], v[(c % 4) + 1], r.nula_angle)
            /\ (v = UnitSquare /\ c = 1) => r.nula_angle = 0
    /\ \A i \in DOMAIN polja_gpr :
         LET r == polja_gpr[i]
             v == ST_Normalize(r.geom)
             c == r.nule_id
         IN /\ LiesAlong(v[c], v[((c + 2) % 4) + 1], r.nula_angle)
            /\ (v = UnitSquare /\ c = 1) => r.nula_angle = 2

\* A mag field on the unit square given counter-clockwise, with corner 4,
\* faces west towards corner 1; a gpr field on the unit square with corner
\* 1 faces east.
C12_Witness ==
    /\ \E i \in DOMAIN polja_mag :
         /\ polja_mag[i].geom = UnitSquareCCW
         /\ polja_mag[i].nule_id = 4
         /\ polja_mag[i].nula_angle = 6
    /\ \E i \in DOMAIN polja_gpr :
         /\ polja_gpr[i].geom = UnitSquare
         /\ polja_gpr[i].nule_id = 1
         /\ polja_gpr[i].nula_angle = 2

HasRepeat(a) ==
    /\ a # NullArray
    /\ \E i, j \in 1..Len(a) : i < j /\ a[i] = a[j]

\* C19: a write of a mag field whose array of bad rows holds a value twice
\* is rejected by the check of the bad rows and no such row is ever stored;
\* a write whose array is NULL, empty or of pairwise distinct values is not
\* rejected by that check.
C19_RepeatedBadRowsRejected ==
    /\ \A i \in DOMAIN polja_mag : ~HasRepeat(polja_mag[i].pogresni_redovi)
    /\ (outcome.table = "polja_mag" /\ outcome.op \in {"INSERT", "UPDATE"}) =>
         IF HasRepeat(outcome.redovi)
         THEN /\ outcome.result = "rejected"
              /\ outcome.by = "check_pogresni_redovi_unique"
         ELSE outcome.by # "check_pogresni_redovi_unique"

\* The array '{3,1,3}' was refused for a stored field that keeps '{1,2}'.
C19_Witness ==
    /\ outcome.table = "polja_mag"
    /\ outcome.op = "UPDATE"
    /\ outcome.redovi = <<3, 1, 3>>
    /\ outcome.result = "rejected"
    /\ outcome.id \in DOMAIN polja_mag
    /\ polja_mag[outcome.id].pogresni_redovi = <<1, 2>>


---------------------------------------------------------------------------
(* The append-only corner vocabulary *)

\* C20: every UPDATE and every DELETE of a row of nule is rejected, the
\* error of the trigger reaches the caller, and the rows of the table are
\* the same after the statement as before it.
C20_VocabularyImmutable ==
    [][(/\ outcome'.table = "nule"
        /\ outcome'.op \in {"UPDATE", "DELETE"}
        /\ outcome'.id \in DOMAIN nule) =>
           /\ outcome'.result = "rejected"
           /\ outcome'.error = "This table is immutable"
           /\ nule' = nule]_vars

\* A DELETE addressed one of several rows of nule and was refused.
C20_Witness ==
    /\ outcome.table = "nule"
    /\ outcome.op = "DELETE"
    /\ outcome.rows = 1
    /\ outcome.result = "rejected"
    /\ outcome.id \in DOMAIN nule
    /\ Cardinality(DOMAIN nule) >= 2


---------------------------------------------------------------------------
(* The chain of derivations of a mutation *)

\* No statement that a trigger function runs fires a trigger, none is on
\* the table of the statement that started the chain, and the chain is
\* never deeper than statement, function, statement.
NoFurtherDerivation ==
    /\ Len(chain) <= 3
    /\ \A j \in 2..Len(chain) :
         chain[j].kind = "statement" =>
           /\ chain[j].table # chain[1].table
           /\ TriggersOf(chain[j].table, chain[j].op, chain[j].set) = <<>>

\* C18: every INSERT, UPDATE or DELETE of a point, field or profile runs a
\* finite chain of derivations and ends, and no write of a derivation fires
\* a further derivation on the table that started it.
C18_ChainEnds == []NoFurtherDerivation /\ ((chain # <<>>) ~> (chain = <<>>))

\* The trigger of the project total, fired by a statement on polja_mag
\* after the BEFORE triggers and the coverage trigger, is running its
\* UPDATE of projekti, which fires nothing.
C18_Witness ==
    /\ Len(chain) = 3
    /\ chain[1].table = "polja_mag"
    /\ chain[1].todo = <<>>
    /\ chain[2].name = "update_project_mag_area"
    /\ chain[3].table = "projekti"
    /\ chain[3].todo = <<>>

\* C30: every persisted profile, of either table, has a geometry of exactly
\* two points.
C30_ProfilesHaveTwoPoints ==
    /\ \A i \in DOMAIN profili_mag : ST_NPoints(profili_mag[i].geom) = 2
    /\ \A i \in DOMAIN profili_gpr : ST_NPoints(profili_gpr[i].geom) = 2

\* The integer r is the distance from a to b rounded to the nearest integer.
Nearest(r, a, b) ==
    LET d2 == (b[1] - a[1]) * (b[1] - a[1]) + (b[2] - a[2]) * (b[2] - a[2])
    IN /\ r >= 0
       /\ (2 * r - 1) * (2 * r - 1) <= 4 * d2 \/ r = 0
       /\ 4 * d2 < (2 * r + 1) * (2 * r + 1)

\* The derived columns of the field row r of modality m are those of its
\* geometry and corner index: the coordinates of vertex c of the normalized
\* ring, the bearing towards the next (mag) or previous (gpr) vertex, and
\* for mag the rounded distances to both neighbours.
DerivedCurrent(r, m) ==
    LET v == ST_Normalize(r.geom)
        c == r.nule_id
        next == v[(c % 4) + 1]
        prev == v[((c + 2) % 4) + 1]
    IN /\ r.nula_x = v[c][1]
       /\ r.nula_y = v[c][2]
       /\ LiesAlong(v[c], IF m = "mag" THEN next ELSE prev, r.nula_angle)
       /\ m = "mag" => /\ Nearest(r.duzina_profila, v[c], next)
                       /\ Nearest(r.sirina_profila, v[c], prev)

\* C24: after any insert or update every stored field has the origin
\* coordinates, the angle and (mag) the length and width derived from its
\* current geometry and corner index.
C24_DerivedValuesCurrent ==
    \A m \in Modalities : \A i \in DOMAIN Tbl(m) : DerivedCurrent(Tbl(m)[i], m)

\* C25: in both field tables the stored origin is vertex c of the
\* normalized ring, and it is from that point that the stored angle leads to
\* the neighbouring vertex and (mag) that the stored length and width reach
\* the two neighbours.
C25_OriginIsMeasuredVertex ==
    \A m \in Modalities : \A i \in DOMAIN Tbl(m) :
        LET r == Tbl(m)[i]
            v == ST_Normalize(r.geom)
            origin == <<r.nula_x, r.nula_y>>
            next == v[(r.nule_id % 4) + 1]
            prev == v[((r.nule_id + 2) % 4) + 1]
        IN /\ \E k \in 1..4 : k = r.nule_id /\ v[k] = origin
           /\ LiesAlong(origin, IF m = "mag" THEN next ELSE prev, r.nula_angle)
           /\ m = "mag" => /\ Nearest(r.duzina_profila, origin, next)
                           /\ Nearest(r.sirina_profila, origin, prev)

\* The same for the gpr fields alone, whose table keeps its trigger.
GprOriginIsMeasuredVertex ==
    \A i \in DOMAIN polja_gpr :
        LET r == polja_gpr[i]
            v == ST_Normalize(r.geom)
        IN /\ v[r.nule_id] = <<r.nula_x, r.nula_y>>
           /\ LiesAlong(<<r.nula_x, r.nula_y>>, v[((r.nule_id + 2) % 4) + 1],
                        r.nula_angle)

\* The angle at b between a and c is a quarter turn or three quarter turns
\* within 0.0001: its cotangent (u.v) / (u x v) is below tan(0.0001) in
\* absolute value.
QuarterTurn(a, b, c) ==
    LET ux == a[1] - b[1]
        uy == a[2] - b[2]
        vx == c[1] - b[1]
        vy == c[2] - b[2]
    IN Abs(ux * vx + uy * vy) * 10000 < Abs(ux * vy - uy * vx)

\* The vertices of the ring g at which the angle, taken with the cyclic
\* predecessor and successor, is not right.
NotRightAt(g) ==
    LET n == Len(g) - 1
    IN {i \in 1..n :
          ~QuarterTurn(g[((i + n - 2) % n) + 1], g[i], g[(i % n) + 1])}

\* C23: the right-angle check accepts a polygon exactly when the angle at
\* every one of its n ring vertices, taken with its cyclic neighbours, is
\* right within 0.0001; otherwise the row is rejected.
C23_AcceptsExactlyAllRight ==
    outcome.op = "ck_right_angles" =>
        (outcome.result = "ok" <=> NotRightAt(outcome.geom) = {})

\* A ring whose only angle that is not right is the one at its first
\* vertex, which has the last vertex as predecessor, is rejected.
C23_Witness ==
    /\ outcome.op = "ck_right_angles"
    /\ NotRightAt(outcome.geom) = {1}
    /\ outcome.result = "rejected"

\* C26: the BEFORE triggers give a mag field with corner c the length from
\* vertex c to vertex c + 1 (1 after 4) and the width from vertex c to
\* vertex c - 1 (4 before 1) of its normalized ring, each rounded to the
\* nearest integer, and give a gpr field neither.
C26_LengthAndWidth ==
    /\ outcome.op = "BeforeMag" =>
          LET v == ST_Normalize(outcome.geom)
              c == outcome.nule_id
          IN /\ Nearest(outcome.new.duzina_profila, v[c], v[(c % 4) + 1])
             /\ Nearest(outcome.new.sirina_profila, v[c], v[((c + 2) % 4) + 1])
    /\ outcome.op = "BeforeGpr" =>
          /\ outcome.new.duzina_profila = Null
          /\ outcome.new.sirina_profila = Null

\* The tilted rectangle with corner 4: the length sqrt(8) towards vertex 1
\* is stored as 3, the width sqrt(2) towards vertex 3 as 1.
C26_Witness ==
    /\ outcome.op = "BeforeMag"
    /\ ST_Normalize(outcome.geom) = TiltedRect
    /\ outcome.nule_id = 4
    /\ outcome.new.duzina_profila = 3
    /\ outcome.new.sirina_profila = 1

\* C21: a statement of a client on projekti or povrsine_po_datumu is not
\* accepted: it leaves the totals and the coverage entries as they were.
C21_DirectWritesNotAccepted ==
    [][outcome'.table \in {"projekti", "povrsine_po_datumu"} =>
         /\ outcome'.result = "rejected"
         /\ UNCHANGED <<projekti, povrsine_po_datumu>>]_vars

\* The database as a value, and the database a field statement leaves: the
\* row change and the AFTER triggers of the table of modality m.  old is
\* NoRow for an INSERT, new is NoRow for a DELETE.
Database(mag, gpr, ppd, prj) == [mag |-> mag, gpr |-> gpr, ppd |-> ppd, prj |-> prj]
Mutated(db, m, op, id, old, new) ==
    LET tbl == IF m = "mag" THEN db.mag ELSE db.gpr
        changed == IF op = "DELETE" THEN Drop(tbl, id) ELSE Put(tbl, id, new)
        mag == IF m = "mag" THEN changed ELSE db.mag
        gpr == IF m = "gpr" THEN changed ELSE db.gpr
    IN Database(mag, gpr,
                update_povrsine_po_datumu(op, old, new, mag, gpr, db.ppd),
                IF m = "mag"
                THEN update_project_mag_area(op, old, new, mag, db.prj)
                ELSE update_project_gpr_area(op, old, new, gpr, db.prj))

\* The coverage entries and the totals of a database.
DerivedOf(db) == <<db.ppd, db.prj>>

\* The database after a client of project q has inserted a field (under
\* the key 0, which no stored field has), or deleted one of q's fields,
\* in db.
AfterOther(db, q) ==
    {Mutated(db, n, "INSERT", 0, NoRow,
             IF n = "mag" THEN PoljaMag(q, d, g) ELSE PoljaGpr(q, d, g)) :
        n \in Modalities, d \in {Min(Dates), Max(Dates)}, g \in {WideRect}}
    \cup
    {Mutated(db, "mag", "DELETE", j, db.mag[j], NoRow) :
        j \in {i \in DOMAIN db.mag : db.mag[i].projekat_id = q}}

\* The step is an accepted statement on a field of modality m that belongs
\* to project p before and after it.
StaysIn(m, p) ==
    /\ outcome'.n = outcome.n + 1
    /\ outcome'.table = TableName(m)
    /\ outcome'.result = "ok"
    /\ outcome'.op # "INSERT" => Before(m).projekat_id = p
    /\ outcome'.op # "DELETE" => After(m).projekat_id = p

\* The same statement as the step, run on the database db.
SameStatement(db, m) ==
    Mutated(db, m, outcome'.op, outcome'.id,
            IF outcome'.op = "INSERT" THEN NoRow ELSE Before(m),
            IF outcome'.op = "DELETE" THEN NoRow ELSE After(m))

\* C22: a statement on a field that stays in project p leaves the coverage
\* entries and the totals of every other project q as they were, and it
\* commutes with every insert or delete of a field of q: both orders leave
\* the same coverage entries and totals.
C22_OtherProjectsUntouched ==
    [][\A m \in Modalities, p \in Projects :
         StaysIn(m, p) =>
           \A q \in Projects \ {p} :
             /\ projekti'[q] = projekti[q]
             /\ \A d \in Dates :
                  /\ <<q, d>> \in DOMAIN povrsine_po_datumu'
                        <=> <<q, d>> \in DOMAIN povrsine_po_datumu
                  /\ <<q, d>> \in DOMAIN povrsine_po_datumu =>
                        povrsine_po_datumu'[<<q, d>>] = povrsine_po_datumu[<<q, d>>]
             /\ LET pre == Database(polja_mag, polja_gpr, povrsine_po_datumu,
                                    projekti)
                    post == Database(polja_mag', polja_gpr', povrsine_po_datumu',
                                     projekti')
                IN {DerivedOf(db) : db \in AfterOther(post, q)}
                   = {DerivedOf(SameStatement(db, m)) : db \in AfterOther(pre, q)}
    ]_vars

\* A field of one project has been updated while the other project has a
\* total and a coverage entry of its own.
C22_Witness ==
    /\ outcome.op = "UPDATE"
    /\ outcome.result = "ok"
    /\ outcome.table = "polja_mag"
    /\ \E q \in Projects :
         /\ q # polja_mag[outcome.id].projekat_id
         /\ projekti[q].total_pov_mag # Null
         /\ projekti[q].total_pov_mag > 0
         /\ \E d \in Dates : <<q, d>> \in DOMAIN povrsine_po_datumu

\* Concurrent sessions that insert into different projects: once all have
\* committed, the coverage entries and the totals are those of the inserts
\* run one after the other, whatever the order.
DifferentProjectsSerial ==
    (AllCommitted /\ \A s, t \in Committed :
                        s # t => tx[s].row.projekat_id # tx[t].row.projekat_id) =>
        \A o \in Orders :
            /\ povrsine_po_datumu = SerialRun(o).ppd
            /\ projekti = SerialRun(o).prj

\* C27: a statement on a point that gives both a geometry and an elevation,
\* or neither, runs no derivation: the stored elevation is the one given.
C27_BothOrNeitherAsGiven ==
    WrotePoint =>
        /\ ("geom" \in outcome.set /\ "z" \in outcome.set /\ outcome.z # Null) =>
              /\ outcome.calls = 0
              /\ tacke[outcome.id].geom = outcome.geom
              /\ tacke[outcome.id].z = RoundNumeric3(outcome.z)
        /\ outcome.set \cap {"geom", "z"} = {} => outcome.calls = 0

\* C28: a statement on a point that changes the coordinates and not the
\* geometry keeps an elevation it supplies, and resolves the elevation of
\* the point's location when it supplies none.
C28_CoordinateWriteResolvesAbsentZ ==
    (WrotePoint /\ outcome.op = "UPDATE" /\ outcome.set = {"z"}) =>
        LET row == tacke[outcome.id]
        IN /\ outcome.z # Null => row.z = RoundNumeric3(outcome.z)
           /\ (outcome.z = Null /\ row.geom # NoGeom) =>
                /\ outcome.calls = 1
                /\ row.z = update_tacka_z([geom |-> row.geom, z |-> Null],
                                          dsm_rasteri, grids).z

\* The stage of a trigger function: 1 validation, 2 corner, angle and
\* dimension derivation, 3 ledger cascade, 4 project total.
StageOf(function) ==
    IF function \in Raising THEN 1
    ELSE IF function \in {"calculate_mag_nula_angle", "calculate_gpr_nula_angle",
                          "calculate_mag_profile_dimensions",
                          "calculate_nula_xy_coordinates"} THEN 2
    ELSE IF function = "update_povrsine_po_datumu" THEN 3
    ELSE IF function \in {"update_project_mag_area", "update_project_gpr_area"}
    THEN 4
    ELSE 0

\* C29: the triggers a statement on a field table has yet to fire are in
\* the order validation, derivation, ledger cascade, project total: none
\* of an earlier stage comes after one of a later stage.
C29_StagesInOrder ==
    \A k \in 1..Len(chain) :
        (chain[k].kind = "statement" /\ chain[k].table \in {"polja_mag", "polja_gpr"}) =>
            \A i, j \in 1..Len(chain[k].todo) :
                i < j => StageOf(chain[k].todo[i].function)
                           <= StageOf(chain[k].todo[j].function)

---------------------------------------------------------------------------
(* The coverage table as the database stores it: rows under the serial key *)
(* pov_id, each with its projekat_id and datum, and the unique constraint  *)
(* uq_projekat_datum over the two.  In SpecLedger povrsine_po_datumu holds  *)
(* such rows, and the statements of update_povrsine_po_datumu act on them. *)

\* A row of povrsine_po_datumu.
PovrsinaPoDatumu(projekat_id, datum, pov_mag, pov_gpr) ==
    [projekat_id |-> projekat_id, datum |-> datum,
     pov_mag |-> pov_mag, pov_gpr |-> pov_gpr]

\* The rows of (projekat_id, datum).
EntriesOf(rows, projekat_id, datum) ==
    {i \in DOMAIN rows :
        rows[i].projekat_id = projekat_id /\ rows[i].datum = datum}

\* UNIQUE (projekat_id, datum): the row id may hold the pair when no other
\* row holds it.  Two NULL dates are distinct to a unique constraint.
uq_projekat_datum(rows, id, projekat_id, datum) ==
    datum = NoDate \/ EntriesOf(rows, projekat_id, datum) \subseteq {id}

\* The value the sequence of pov_id gives next.
NextPovId(rows) == Max(DOMAIN rows \cup {0}) + 1

\* Variant: a plain INSERT into a table without the constraint.
InsertOnConflict_Plain(rows, v_projekat_id, v_datum, mag, gpr) ==
    LET c == CoverageRow(v_projekat_id, v_datum, mag, gpr)
    IN Put(rows, NextPovId(rows),
           PovrsinaPoDatumu(v_projekat_id, v_datum, c.pov_mag, c.pov_gpr))

\* INSERT INTO povrsine_po_datumu (projekat_id, datum, pov_mag, pov_gpr)
\* VALUES (..) ON CONFLICT (projekat_id, datum) DO UPDATE SET pov_mag =
\* EXCLUDED.pov_mag, pov_gpr = EXCLUDED.pov_gpr
InsertOnConflict(rows, v_projekat_id, v_datum, mag, gpr) ==
    LET c == CoverageRow(v_projekat_id, v_datum, mag, gpr)
    IN IF uq_projekat_datum(rows, 0, v_projekat_id, v_datum)
       THEN Put(rows, NextPovId(rows),
                PovrsinaPoDatumu(v_projekat_id, v_datum, c.pov_mag, c.pov_gpr))
       ELSE [i \in DOMAIN rows |->
               IF i \in EntriesOf(rows, v_projekat_id, v_datum)
               THEN [rows[i] EXCEPT !.pov_mag = c.pov_mag, !.pov_gpr = c.pov_gpr]
               ELSE rows[i]]

\* UPDATE povrsine_po_datumu ppd SET pov_mag = .., pov_gpr = ..
\* WHERE ppd.projekat_id = v_projekat_id AND ppd.datum >= from (or > from)
UpdateWhere(rows, v_projekat_id, from, strict, mag, gpr) ==
    [i \in DOMAIN rows |->
        IF /\ rows[i].projekat_id = v_projekat_id
           /\ rows[i].datum # NoDate
           /\ IF strict THEN rows[i].datum > from ELSE rows[i].datum >= from
        THEN LET c == CoverageRow(rows[i].projekat_id, rows[i].datum, mag, gpr)
             IN [rows[i] EXCEPT !.pov_mag = c.pov_mag, !.pov_gpr = c.pov_gpr]
        ELSE rows[i]]

\* update_povrsine_po_datumu on the rows of the table.
update_povrsine_po_datumu_rows(TG_OP, old, new, mag, gpr, rows) ==
    LET v_projekat_id == IF TG_OP = "DELETE" THEN old.projekat_id
                         ELSE new.projekat_id
        v_datum == IF TG_OP = "DELETE" THEN old.datum ELSE new.datum
        v_old_datum == IF TG_OP = "UPDATE" THEN old.datum ELSE NoDate
    IN IF TG_OP = "UPDATE" /\ v_old_datum # NoDate /\ v_datum = NoDate
       THEN UpdateWhere(rows, v_projekat_id, v_old_datum, FALSE, mag, gpr)
       ELSE IF v_datum = NoDate
       THEN rows
       ELSE LET upserted == InsertOnConflict(rows, v_projekat_id, v_datum, mag, gpr)
            IN IF TG_OP = "UPDATE" /\ v_old_datum # NoDate /\ v_old_datum # v_datum
               THEN UpdateWhere(upserted, v_projekat_id, v_old_datum, FALSE, mag, gpr)
               ELSE IF TG_OP = "UPDATE" \/ TG_OP = "DELETE"
               THEN UpdateWhere(upserted, v_projekat_id, v_datum, TRUE, mag, gpr)
               ELSE upserted

\* The AFTER ROW triggers of the field table of modality m, given the
\* table after the change.
AfterField(m, TG_OP, old, new, tbl) ==
    LET mag == IF m = "mag" THEN tbl ELSE polja_mag
        gpr == IF m = "gpr" THEN tbl ELSE polja_gpr
    IN /\ polja_mag' = mag
       /\ polja_gpr' = gpr
       /\ povrsine_po_datumu' =
            update_povrsine_po_datumu_rows(TG_OP, old, new, mag, gpr,
                                           povrsine_po_datumu)
       /\ projekti' = IF m = "mag"
                      THEN update_project_mag_area(TG_OP, old, new, mag, projekti)
                      ELSE update_project_gpr_area(TG_OP, old, new, gpr, projekti)

FieldOf(m, p, d, g) == IF m = "mag" THEN PoljaMag(p, d, g) ELSE PoljaGpr(p, d, g)
FieldChecks(m, g) == IF m = "mag" THEN PoljaMagChecks(g) ELSE PoljaGprChecks(g)
FieldIds(m) == IF m = "mag" THEN MagIds ELSE GprIds

\* INSERT INTO polja_mag / polja_gpr (projekat_id, datum, geom) VALUES (p, d, g)
InsertField(m, id, p, d, g) ==
    /\ outcome.n < MaxOps
    /\ DOMAIN Tbl(m) # FieldIds(m)
    /\ id = NextId(Tbl(m), FieldIds(m))
    /\ IF FieldChecks(m, g)
       THEN /\ AfterField(m, "INSERT", NoRow, FieldOf(m, p, d, g),
                          Put(Tbl(m), id, FieldOf(m, p, d, g)))
            /\ outcome' = Did("INSERT", TableName(m), id, "ok")
       ELSE Rejected("INSERT", TableName(m), id)
    /\ UNCHANGED <<tx, rest>>

\* UPDATE polja_mag / polja_gpr SET projekat_id = p, datum = d, geom = g
\* WHERE polje_id = id
UpdateField(m, id, p, d, g) ==
    /\ outcome.n < MaxOps
    /\ id \in DOMAIN Tbl(m)
    /\ IF FieldChecks(m, g)
       THEN /\ AfterField(m, "UPDATE", Tbl(m)[id], FieldOf(m, p, d, g),
                          Put(Tbl(m), id, FieldOf(m, p, d, g)))
            /\ outcome' = Did("UPDATE", TableName(m), id, "ok")
       ELSE Rejected("UPDATE", TableName(m), id)
    /\ UNCHANGED <<tx, rest>>

\* DELETE FROM polja_mag / polja_gpr WHERE polje_id = id
DeleteField(m, id) ==
    /\ outcome.n < MaxOps
    /\ id \in DOMAIN Tbl(m)
    /\ AfterField(m, "DELETE", Tbl(m)[id], NoRow, Drop(Tbl(m), id))
    /\ outcome' = Did("DELETE", TableName(m), id, "ok")
    /\ UNCHANGED <<tx, rest>>

\* INSERT INTO povrsine_po_datumu (projekat_id, datum, pov_mag, pov_gpr)
\* VALUES (p, d, a, a) by a client: the unique constraint decides.
InsertPovrsina(p, d, a) ==
    /\ outcome.n < MaxOps
    /\ IF uq_projekat_datum(povrsine_po_datumu, 0, p, d)
       THEN /\ povrsine_po_datumu' =
                 Put(povrsine_po_datumu, NextPovId(povrsine_po_datumu),
                     PovrsinaPoDatumu(p, d, a, a))
            /\ outcome' = Did("INSERT", "povrsine_po_datumu",
                              NextPovId(povrsine_po_datumu), "ok")
            /\ UNCHANGED <<polja_mag, polja_gpr, projekti>>
       ELSE Rejected("INSERT", "povrsine_po_datumu", 0)
    /\ UNCHANGED <<tx, rest>>

\* UPDATE povrsine_po_datumu SET datum = d WHERE pov_id = id by a client.
UpdatePovrsinaDatum(id, d) ==
    /\ outcome.n < MaxOps
    /\ id \in DOMAIN povrsine_po_datumu
    /\ IF uq_projekat_datum(povrsine_po_datumu, id,
                            povrsine_po_datumu[id].projekat_id, d)
       THEN /\ povrsine_po_datumu' =
                 [povrsine_po_datumu EXCEPT ![id].datum = d]
            /\ outcome' = Did("UPDATE", "povrsine_po_datumu", id, "ok")
            /\ UNCHANGED <<polja_mag, polja_gpr, projekti>>
       ELSE Rejected("UPDATE", "povrsine_po_datumu", id)
    /\ UNCHANGED <<tx, rest>>

LedgerGeoms == {UnitSquare, WideRect}

NextLedger ==
    \/ \E m \in Modalities, id \in MagIds \cup GprIds, p \in Projects,
          d \in DatesOrNull, g \in LedgerGeoms : InsertField(m, id, p, d, g)
    \/ \E m \in Modalities, id \in MagIds \cup GprIds, p \in Projects,
          d \in DatesOrNull, g \in LedgerGeoms : UpdateField(m, id, p, d, g)
    \/ \E m \in Modalities, id \in MagIds \cup GprIds : DeleteField(m, id)
    \/ \E p \in Projects, d \in DatesOrNull : InsertPovrsina(p, d, 0)
    \/ \E id \in 1..MaxOps, d \in DatesOrNull : UpdatePovrsinaDatum(id, d)

SpecLedger == Init /\ [][NextLedger]_vars

---------------------------------------------------------------------------
(* C31 *)

\* C31: in every reachable state no two rows of povrsine_po_datumu hold the
\* same project and the same date.
C31_OneEntryPerProjectAndDate ==
    \A i, j \in DOMAIN povrsine_po_datumu :
        (/\ povrsine_po_datumu[i].datum # NoDate
         /\ povrsine_po_datumu[i].projekat_id = povrsine_po_datumu[j].projekat_id
         /\ povrsine_po_datumu[i].datum = povrsine_po_datumu[j].datum)
        => i = j

\* Three field statements have run on one project and one date (an insert
\* of each modality among them), and the pair has its one entry, holding
\* the values of both modalities.
C31_Witness ==
    \E i \in DOMAIN povrsine_po_datumu :
        LET r == povrsine_po_datumu[i]
        IN /\ outcome.n = 3
           /\ outcome.table \in {"polja_mag", "polja_gpr"}
           /\ outcome.result = "ok"
           /\ r.datum # NoDate
           /\ RowsOn(polja_mag, r.projekat_id, r.datum) # {}
           /\ RowsOn(polja_gpr, r.projekat_id, r.datum) # {}
           /\ r.pov_mag > 0
           /\ r.pov_gpr > 0
           /\ DOMAIN povrsine_po_datumu = {i}

---------------------------------------------------------------------------
(* The corner of a field.  nule_id is an integer column whose only         *)
(* constraint in the database is the foreign key to nule; immutable_trigger *)
(* fires on UPDATE and DELETE of nule, not on INSERT.                      *)

\* The key and the name a client gives a further row of nule.
ExtraNuleIds == {5}
ExtraNuleNazivi == {"nula5"}

\* The corner indices the statements of this part carry.
CornerIndices == NuleIds \cup ExtraNuleIds

\* INSERT INTO nule (nule_id, nule_naziv) VALUES (k, naziv): the primary key
\* and the unique index on nule_naziv decide.
InsertNulaRow(k, naziv) ==
    /\ outcome.n < MaxWrites
    /\ LET by == IF k \in DOMAIN nule THEN "nule_pkey"
                 ELSE IF \E i \in DOMAIN nule : nule[i] = naziv
                 THEN "ix_nule_nule_naziv"
                 ELSE ""
       IN /\ outcome' = DidWrite("INSERT", "nule", k, by, NullArray)
          /\ nule' = IF by = "" THEN Put(nule, k, naziv) ELSE nule
    /\ UNCHANGED <<polja_mag, polja_gpr, povrsine_po_datumu, projekti, tx,
                   tacke, dsm_rasteri, grids, profili_mag, profili_gpr, chain,
                   georadari, antene>>

CornerGeoms == {UnitSquare, WideRect}
CornerNazivi == {<<"P", "o", "l", "j", "e", " ", "7">>}

NextCorner ==
    \/ \E k \in CornerIndices, naziv \in ExtraNuleNazivi \cup {"sever"} :
         InsertNulaRow(k, naziv)
    \/ \E id \in MagIds, p \in Projects, d \in WriteDates, g \in CornerGeoms,
          naziv \in CornerNazivi, c \in CornerIndices :
         InsertPoljeMag(id, p, d, g, naziv, c, NullArray)
    \/ \E id \in MagIds, p \in Projects, d \in WriteDates, g \in CornerGeoms,
          naziv \in CornerNazivi, c \in CornerIndices :
         UpdatePoljeMag(id, p, d, g, naziv, c, NullArray)
    \/ \E id \in GprIds, p \in Projects, d \in WriteDates, g \in CornerGeoms,
          naziv \in CornerNazivi, c \in CornerIndices :
         InsertPoljeGpr(id, p, d, g, naziv, c)
    \/ \E id \in GprIds, p \in Projects, d \in WriteDates, g \in CornerGeoms,
          naziv \in CornerNazivi, c \in CornerIndices :
         UpdatePoljeGpr(id, p, d, g, naziv, c)

SpecCorner == InitWrite /\ [][NextCorner]_vars

---------------------------------------------------------------------------
(* C32 *)

\* C32: the origin-corner index of every persisted field is one of 1, 2, 3
\* and 4.
C32_CornerIndexOneToFour ==
    /\ \A i \in DOMAIN polja_mag : polja_mag[i].nule_id \in 1..4
    /\ \A i \in DOMAIN polja_gpr : polja_gpr[i].nule_id \in 1..4

---------------------------------------------------------------------------
(* C33 *)

\* The step is an UPDATE that moves a field of modality m from project p to
\* another project q.
MovesProject(m, p, q) ==
    /\ Step("UPDATE", m)
    /\ p # q
    /\ Before(m).projekat_id = p
    /\ After(m).projekat_id = q

\* C33: after an update that moves a field from project P to project Q, the
\* totals of P and of Q for the field's modality are the sums of the areas
\* of the fields each of them has after the update.
C33_BothTotalsAfterMove ==
    [][\A m \in Modalities, p, q \in Projects :
         MovesProject(m, p, q) =>
           /\ Total(p, m)' = SumOfGeometryAreas(p, m)'
           /\ Total(q, m)' = SumOfGeometryAreas(q, m)'
           /\ Total(p, m)' = SumOfFieldAreas(p, m)'
           /\ Total(q, m)' = SumOfFieldAreas(q, m)']_vars

\* The second statement moved the only field of project p to project q:
\* p has no field and its total, set by the insert, is back to 0, and q
\* holds the field and its area.
C33_Witness ==
    \E m \in Modalities, p, q \in Projects :
        /\ p # q
        /\ outcome.op = "UPDATE"
        /\ outcome.table = TableName(m)
        /\ outcome.result = "ok"
        /\ outcome.n = 2
        /\ RowsOf(Tbl(m), p) = {}
        /\ Total(p, m) = 0
        /\ RowsOf(Tbl(m), q) = {outcome.id}
        /\ Total(q, m) = Pov(Tbl(m)[outcome.id], m)
        /\ Total(q, m) > 0

---------------------------------------------------------------------------
(* C34 *)

\* C34: after an update that moves a dated field from project P to project
\* Q, every coverage entry of P dated on or after the field's old date
\* holds, for the field's modality, the non-overlapping area of the fields P
\* has after the update.
C34_OldProjectEntriesRecomputed ==
    [][\A m \in Modalities, p, q \in Projects :
         (MovesProject(m, p, q) /\ Before(m).datum # NoDate) =>
           \A k \in DOMAIN povrsine_po_datumu' :
             (k[1] = p /\ k[2] >= Before(m).datum)
             => EntryExact(povrsine_po_datumu', k, m, Tbl(m)')]_vars

---------------------------------------------------------------------------
(* C35 *)

Other(m) == IF m = "mag" THEN "gpr" ELSE "mag"

\* C35: an insert, update or delete of a field of one modality leaves, in
\* every coverage entry there was, the value of the other modality as it
\* was.
C35_OtherModalityUnchanged ==
    [][\A m \in Modalities :
         (\E op \in {"INSERT", "UPDATE", "DELETE"} : Step(op, m)) =>
           \A k \in DOMAIN povrsine_po_datumu :
             /\ k \in DOMAIN povrsine_po_datumu'
             /\ Pov(povrsine_po_datumu'[k], Other(m))
                  = Pov(povrsine_po_datumu[k], Other(m))]_vars

---------------------------------------------------------------------------
(* C36 *)

\* C36: in every reachable state, every project and date that some field of
\* either modality bears has a coverage entry.
C36_EntryForEveryFieldDate ==
    \A m \in Modalities :
        \A i \in DOMAIN Tbl(m) :
            Tbl(m)[i].datum # NoDate =>
                <<Tbl(m)[i].projekat_id, Tbl(m)[i].datum>>
                    \in DOMAIN povrsine_po_datumu

\* The second statement moved the only field there is to another date or
\* project: the entry of where it was and the entry of where it is both
\* exist.
C36_Witness ==
    \E m \in Modalities :
        /\ outcome.n = 2
        /\ outcome.op = "UPDATE"
        /\ outcome.table = TableName(m)
        /\ outcome.result = "ok"
        /\ DOMAIN Tbl(m) = {outcome.id}
        /\ DOMAIN Tbl(Other(m)) = {}
        /\ Tbl(m)[outcome.id].datum # NoDate
        /\ Cardinality(DOMAIN povrsine_po_datumu) = 2
        /\ <<Tbl(m)[outcome.id].projekat_id, Tbl(m)[outcome.id].datum>>
             \in DOMAIN povrsine_po_datumu

---------------------------------------------------------------------------
(* C37 *)

\* The step is an UPDATE that takes the date away from a dated field.
ClearsDate(m) ==
    /\ Step("UPDATE", m)
    /\ Before(m).datum # NoDate
    /\ After(m).datum = NoDate

\* C37: after an update that clears the date D of a field, every coverage
\* entry of the field's project dated D or later holds the non-overlapping
\* areas of the fields as they are after the update, the field counting for
\* none; no entry is created, and none bears the absent date; the project's
\* total of the modality is the sum over its fields, this one among them.
C37_ClearedDateLeavesLedger ==
    [][\A m \in Modalities, p \in Projects :
         (ClearsDate(m) /\ After(m).projekat_id = p) =>
           /\ RecomputedFrom(povrsine_po_datumu', p, Before(m).datum,
                             polja_mag', polja_gpr')
           /\ DOMAIN povrsine_po_datumu' = DOMAIN povrsine_po_datumu
           /\ \A k \in DOMAIN povrsine_po_datumu' : k[2] # NoDate
           /\ outcome'.id \in RowsOf(Tbl(m)', p)
           /\ Total(p, m)' = SumOfGeometryAreas(p, m)']_vars

\* The second statement cleared the date of the only field: the entry of
\* its former date is there and holds 0, no other entry exists, and the
\* project's total is the field's area.
C37_Witness ==
    \E m \in Modalities, p \in Projects, d \in Dates :
        /\ outcome.n = 2
        /\ outcome.op = "UPDATE"
        /\ outcome.table = TableName(m)
        /\ outcome.result = "ok"
        /\ DOMAIN Tbl(m) = {outcome.id}
        /\ Tbl(m)[outcome.id].projekat_id = p
        /\ Tbl(m)[outcome.id].datum = NoDate
        /\ DOMAIN povrsine_po_datumu = {<<p, d>>}
        /\ Pov(povrsine_po_datumu[<<p, d>>], m) = 0
        /\ Total(p, m) = Pov(Tbl(m)[outcome.id], m)
        /\ Total(p, m) > 0

---------------------------------------------------------------------------
(* The radar and the antenna of a radar field: columns gpr_id and antena_id *)
(* of polja_gpr, the tables georadari and antene with the manufacturer of  *)
(* each device, and the trigger trigger_check_gpr_antena_proizvodjac       *)
(* (BEFORE INSERT OR UPDATE OF gpr_id, antena_id ON polja_gpr).  Neither   *)
(* georadari nor antene carries a trigger.                                 *)

\* check_gpr_antena_proizvodjac: TRUE when the function returns NEW, FALSE
\* when it raises.  A SELECT .. INTO that finds no row leaves NULL.
check_gpr_antena_proizvodjac(new, radars, antennas) ==
    IF new.gpr_id = Null \/ new.antena_id = Null THEN TRUE
    ELSE LET v_gpr_proizvodjac_id ==
                 IF new.gpr_id \in DOMAIN radars THEN radars[new.gpr_id] ELSE Null
             v_antena_proizvodjac_id ==
                 IF new.antena_id \in DOMAIN antennas
                 THEN antennas[new.antena_id] ELSE Null
         IN v_gpr_proizvodjac_id = v_antena_proizvodjac_id

\* NEW of a statement on polja_gpr that gives the devices as well.
WithDevices(row, gpr_id, antena_id) ==
    [f \in DOMAIN row \cup {"gpr_id", "antena_id"} |->
        IF f = "gpr_id" THEN gpr_id
        ELSE IF f = "antena_id" THEN antena_id
        ELSE row[f]]

\* INSERT of the row id of polja_gpr with NEW = new, or the UPDATE of its
\* columns gpr_id and antena_id alone.  The trigger function runs BEFORE the
\* row; then gpr_id NOT NULL, the check constraints and the unique index
\* (GprRejection); the foreign keys are tested at the end of the statement,
\* nule_id (last of GprRejection) before gpr_id before antena_id.  The
\* UPDATE names neither geom nor nule_id, so that the triggers of BeforeGpr
\* (UPDATE OF geom, nule_id) fire on the INSERT only; the AFTER triggers
\* carry no column list.
WriteGprDevices(TG_OP, id, old, new) ==
    LET by == IF ~check_gpr_antena_proizvodjac(new, georadari, antene)
              THEN "check_gpr_antena_proizvodjac"
              ELSE IF new.gpr_id = Null THEN "gpr_id_not_null"
              ELSE IF GprRejection(id, new) # "" THEN GprRejection(id, new)
              ELSE IF new.gpr_id \notin DOMAIN georadari
              THEN "polja_gpr_gpr_id_fkey"
              ELSE IF new.antena_id # Null /\ new.antena_id \notin DOMAIN antene
              THEN "polja_gpr_antena_id_fkey"
              ELSE ""
        row == IF TG_OP = "INSERT" THEN BeforeGpr(new) ELSE new
    IN /\ outcome' = DidWrite(TG_OP, "polja_gpr", id, by, NullArray)
       /\ IF by = ""
          THEN AfterGpr(TG_OP, old, row, Put(polja_gpr, id, row))
          ELSE UNCHANGED <<polja_mag, polja_gpr, povrsine_po_datumu, projekti>>

\* INSERT INTO polja_gpr (projekat_id, datum, geom, polje_naziv, nule_id,
\* gpr_id, antena_id)
InsertPoljeGprDevices(id, p, d, g, naziv, c, gpr_id, antena_id) ==
    /\ outcome.n < MaxWrites
    /\ DOMAIN polja_gpr # GprIds
    /\ id = NextId(polja_gpr, GprIds)
    /\ WriteGprDevices("INSERT", id, NoRow,
                       WithDevices(FieldRow(p, d, g, naziv, c, NullArray, NoRow),
                                   gpr_id, antena_id))
    /\ UNCHANGED <<tx, rest>>

\* UPDATE polja_gpr SET gpr_id = .., antena_id = .. WHERE polje_id = id
UpdatePoljeGprDevices(id, gpr_id, antena_id) ==
    /\ outcome.n < MaxWrites
    /\ id \in DOMAIN polja_gpr
    /\ WriteGprDevices("UPDATE", id, polja_gpr[id],
                       WithDevices(polja_gpr[id], gpr_id, antena_id))
    /\ UNCHANGED <<tx, rest>>

\* UPDATE georadari SET gpr_proizvodjac_id = v WHERE gpr_id = k
UpdateGeoradar(k, v) ==
    /\ outcome.n < MaxWrites
    /\ k \in DOMAIN georadari
    /\ georadari' = [georadari EXCEPT ![k] = v]
    /\ outcome' = DidWrite("UPDATE", "georadari", k, "", NullArray)
    /\ UNCHANGED <<polja_mag, polja_gpr, povrsine_po_datumu, projekti, tx,
                   tacke, dsm_rasteri, grids, nule, profili_mag, profili_gpr,
                   chain, antene>>

\* UPDATE antene SET antena_proizvodjac_id = v WHERE antena_id = k
UpdateAntena(k, v) ==
    /\ outcome.n < MaxWrites
    /\ k \in DOMAIN antene
    /\ antene' = [antene EXCEPT ![k] = v]
    /\ outcome' = DidWrite("UPDATE", "antene", k, "", NullArray)
    /\ UNCHANGED <<polja_mag, polja_gpr, povrsine_po_datumu, projekti, tx,
                   tacke, dsm_rasteri, grids, nule, profili_mag, profili_gpr,
                   chain, georadari>>

\* The device keys a statement gives: those registered; no antenna.
DeviceIds == Proizvodjaci
AntenaIdsOrNull == DeviceIds \cup {Null}

NextAntena ==
    \/ \E id \in GprIds, p \in Projects, d \in WriteDates, g \in CornerGeoms,
          naziv \in CornerNazivi, c \in {1, 3},
          gpr_id \in DeviceIds, antena_id \in AntenaIdsOrNull :
         InsertPoljeGprDevices(id, p, d, g, naziv, c, gpr_id, antena_id)
    \/ \E id \in GprIds, gpr_id \in DeviceIds, antena_id \in AntenaIdsOrNull :
         UpdatePoljeGprDevices(id, gpr_id, antena_id)
    \/ \E k \in DeviceIds, v \in Proizvodjaci : UpdateGeoradar(k, v)
    \/ \E k \in DeviceIds, v \in Proizvodjaci : UpdateAntena(k, v)

SpecAntena == InitWrite /\ [][NextAntena]_vars

---------------------------------------------------------------------------
(* C38 *)

\* C38: in every reachable state the radar and the antenna of every radar
\* field that references both are of the same manufacturer.
C38_RadarAndAntennaSameMaker ==
    \A i \in DOMAIN polja_gpr :
        (polja_gpr[i].gpr_id # Null /\ polja_gpr[i].antena_id # Null) =>
            georadari[polja_gpr[i].gpr_id] = antene[polja_gpr[i].antena_id]


===========================================================================
